---- MODULE Spec2Model ----
(***************************************************************************)
(* A model of the pyxtuml metamodel runtime: the edge-based engine of      *)
(* xtuml/meta.py (instances, links, associations, relate/unrelate, the     *)
(* query cache) and the key-copy engine of xtuml/model.py.                 *)
(*                                                                         *)
(* Python values are tagged pairs <<tag, payload>>.  Identifiers (kinds,   *)
(* attribute names, relation ids, phrases) are sequences of characters, so *)
(* that str.upper() and 'R%d' % n are computed and not assumed.  An        *)
(* instance is the pair <<metaclass, n>>: its __metaclass__ and its object *)
(* identity.  Every operation is an operator from a state record to a      *)
(* result record [st, ret, exc]; the actions apply the operators to the    *)
(* variables.                                                              *)
(***************************************************************************)
EXTENDS Integers, Sequences, FiniteSets, TLC

\* ------------------------------------------------------------- bounds
\* instances that may be created per metaclass
MaxInst == 2
\* the number of instances of a chain across the reflexive association
MaxChain == MaxInst + 1

\* ------------------------------------------------------ python values
None == <<"none", 0>>
PyInt(n) == <<"int", n>>
PyStr(s) == <<"str", s>>
PyBool(b) == <<"bool", b>>
AttributeError == <<"exc", "AttributeError">>

\* bool(value)
Truthy(v) ==
    CASE v[1] = "int" -> v[2] # 0
      [] v[1] = "str" -> v[2] # ""
      [] v[1] = "bool" -> v[2]
      [] v[1] = "uuid" -> TRUE
      [] OTHER -> FALSE

\* value1 != value2: numbers compare by value, True being 1 and False 0
PyNe(v, w) ==
    LET number(x) == IF x[1] = "bool" THEN (IF x[2] THEN 1 ELSE 0) ELSE x[2]
    IN  IF {v[1], w[1]} \subseteq {"int", "bool", "real"} THEN number(v) # number(w)
        ELSE v # w

Min(S) == CHOOSE x \in S : \A y \in S : x <= y

\* the elements of the sequence s for which keep holds, in order
RECURSIVE SelectSeqBy(_, _)
SelectSeqBy(s, keep) ==
    IF s = <<>> THEN <<>>
    ELSE (IF Head(s) \in keep THEN <<Head(s)>> ELSE <<>>) \o SelectSeqBy(Tail(s), keep)

Range(s) == {s[i] : i \in DOMAIN s}

\* ------------------------------------------------------------ strings
UpperCase ==
    "a" :> "A" @@ "b" :> "B" @@ "c" :> "C" @@ "d" :> "D" @@ "e" :> "E" @@
    "f" :> "F" @@ "g" :> "G" @@ "h" :> "H" @@ "i" :> "I" @@ "j" :> "J" @@
    "k" :> "K" @@ "l" :> "L" @@ "m" :> "M" @@ "n" :> "N" @@ "o" :> "O" @@
    "p" :> "P" @@ "q" :> "Q" @@ "r" :> "R" @@ "s" :> "S" @@ "t" :> "T" @@
    "u" :> "U" @@ "v" :> "V" @@ "w" :> "W" @@ "x" :> "X" @@ "y" :> "Y" @@
    "z" :> "Z"
DigitChars == <<"0","1","2","3","4","5","6","7","8","9">>

upper_char(c) ==
    LET in(map) == IF c \in DOMAIN map THEN map[c] ELSE c
    IN  in(UpperCase)

\* str.upper()
upper(s) == [i \in DOMAIN s |-> upper_char(s[i])]

\* '%d' % n
RECURSIVE str_int(_)
str_int(n) ==
    IF n < 10 THEN <<DigitChars[n + 1]>>
    ELSE str_int(n \div 10) \o <<DigitChars[(n % 10) + 1]>>

\* a relation id argument is an int, <<"int", n>>, or a string, <<"str", chars>>:
\*     if isinstance(rel_id, int): rel_id = 'R%d' % rel_id
norm_rel_id(rel_id) ==
    IF rel_id[1] = "int" THEN <<"R">> \o str_int(rel_id[2]) ELSE rel_id[2]

\* ---------------------------------------------------- the identifiers
kDog == <<"D","o","g">>
kPer == <<"P","e","r">>
aName == <<"N","a","m","e">>
aOwner == <<"o","w","n","e","r","_","i","d">>
aId == <<"I","d">>
aPrev == <<"p","r","e","v","_","i","d">>
\* the type names the code compares with
cSTRING == <<"S","T","R","I","N","G">>
cUNIQUE_ID == <<"U","N","I","Q","U","E","_","I","D">>
cBOOLEAN == <<"B","O","O","L","E","A","N">>
cINTEGER == <<"I","N","T","E","G","E","R">>
cREAL == <<"R","E","A","L">>
\* the type names the schema is written with
tSTRING == <<"s","t","r","i","n","g">>
tUNIQUE_ID == <<"u","n","i","q","u","e","_","i","d">>
NoPhrase == <<>>
pPrev == <<"p","r","e","v">>
pNext == <<"n","e","x","t">>

\* the metaclasses, by order of definition
DOG == 1
PER == 2
NoInst == <<0, 0>>
InstOf(c) == {<<c, n>> : n \in 1..MaxInst}
AllInst == InstOf(DOG) \cup {<<PER, n>> : n \in 1..MaxChain}

\* ------------------------------------------------------------- dicts
EmptyDict == <<>>
DictSet(d, k, v) == [x \in (DOMAIN d) \cup {k} |-> IF x = k THEN v ELSE d[x]]

\* dict(zip(keys, values)) as the sequence of its items
zip(keys, values) ==
    [i \in 1..(IF Len(keys) < Len(values) THEN Len(keys) ELSE Len(values))
        |-> <<keys[i], values[i]>>]

\* ---------------------------------------------------------- the state
\* metaclasses  : MetaModel.metaclasses, in order of definition; each a record
\*                [kind, attributes, referential_attributes,
\*                 identifying_attributes, links, clazz]
\*                links: the items (key, link) of MetaClass.links in insertion
\*                order, a link being <<association, side>>
\*                clazz: the properties formalize() set on the class,
\*                name -> [link, ref_name]
\* associations : MetaModel.associations, each a record
\*                [rel_id, source_keys, target_keys, source_link, target_link],
\*                a Link being [from_metaclass, to_metaclass, rel_id, phrase,
\*                conditional, many, key_map]
\* links        : the contents of the Link dicts: links[a][side][instance] is
\*                the neighbor set of instance
\* storage      : MetaClass.storage, per metaclass
\* idict        : the __dict__ of every instance
\* cache        : MetaClass.cache per metaclass: frozenset of items -> Query
\* id_generator : the number of ids MetaModel.id_generator has issued
\* hashorder    : the order in which a Python set iterates the instances of a
\*                metaclass (their hash order), arbitrary and fixed when the
\*                instance is allocated
\* engine       : the module the program imported: "meta" (xtuml.meta) or
\*                "model" (xtuml.model)
\* last         : the last call and what it returned or raised
\* twin         : the MetaModel of the same program run with xtuml.model next
\*                to xtuml.meta, a record like St; NoTwin when the program
\*                runs with one engine only
\* generators   : the generators of Query.execute that the program holds, in
\*                the order it made them
VARIABLES metaclasses, associations, links, storage, idict, cache,
          id_generator, hashorder, engine, last, twin, generators

vars == <<metaclasses, associations, links, storage, idict, cache,
          id_generator, hashorder, engine, last, twin, generators>>

NoTwin == <<>>

St == [metaclasses |-> metaclasses, associations |-> associations,
       links |-> links, storage |-> storage, idict |-> idict,
       cache |-> cache, id_generator |-> id_generator,
       hashorder |-> hashorder]

Sides == {"source", "target"}
EmptyLink == [i \in AllInst |-> {}]
LinkOf(S, ref) == S.associations[ref[1]][IF ref[2] = "source" THEN "source_link" ELSE "target_link"]

\* iter(a_set): the elements of a set of instances in hash order
IterSet(S, set) == SelectSeqBy(S.hashorder[DOG] \o S.hashorder[PER], set)

\* next(iter(a_set), None)
FirstOf(S, set) == IF set = {} THEN NoInst ELSE IterSet(S, set)[1]

\* ------------------------------------------------------------- Link
\* Link.connect without its cardinality check
Link_connect_unchecked(lk, nb, instance, another_instance, check) ==
    IF another_instance \in nb[instance] THEN [ok |-> TRUE, nb |-> nb]
    ELSE [ok |-> TRUE, nb |-> [nb EXCEPT ![instance] = @ \cup {another_instance}]]

\* Link.connect: [ok, nb], nb the Link's dict afterwards
Link_connect(lk, nb, instance, another_instance, check) ==
    IF another_instance \in nb[instance] THEN [ok |-> TRUE, nb |-> nb]
    ELSE IF nb[instance] # {} /\ ~lk.many /\ check THEN [ok |-> FALSE, nb |-> nb]
    ELSE [ok |-> TRUE, nb |-> [nb EXCEPT ![instance] = @ \cup {another_instance}]]

\* Link.disconnect: [ok, nb]
Link_disconnect(nb, instance, another_instance) ==
    IF another_instance \notin nb[instance] THEN [ok |-> FALSE, nb |-> nb]
    ELSE [ok |-> TRUE, nb |-> [nb EXCEPT ![instance] = @ \ {another_instance}]]

\* Link.navigate
Link_navigate(nb, instance) == IF instance \in DOMAIN nb THEN nb[instance] ELSE {}

\* ---------------------------------------------------- Class attributes
\* getattr(inst, name): a property that formalize() set on the class under
\* exactly this name comes first (fget follows the target link), then the
\* instance __dict__, then Class.__getattr__ (case-insensitive, __dict__ only),
\* then AttributeError
RECURSIVE getattr(_, _, _)
getattr(S, inst, name) ==
    LET mc == S.metaclasses[inst[1]]
        d == S.idict[inst]
        fget(p) ==
            LET read(other) ==
                    IF other = NoInst THEN None
                    ELSE LET or_none(v) == IF v = AttributeError THEN None ELSE v
                         IN  or_none(getattr(S, other, p.ref_name))
            IN  read(FirstOf(S, Link_navigate(S.links[p.link[1]][p.link[2]], inst)))
        __getattr__(hits) ==
            IF hits # {} THEN d[mc.attributes[Min(hits)][1]] ELSE AttributeError
    IN  IF name \in DOMAIN mc.clazz THEN fget(mc.clazz[name])
        ELSE IF name \in DOMAIN d THEN d[name]
        ELSE __getattr__({i \in DOMAIN mc.attributes :
                            /\ upper(mc.attributes[i][1]) = upper(name)
                            /\ mc.attributes[i][1] \in DOMAIN d})

\* Class.__setattr__: the state afterwards
setattr(S, inst, name, value) ==
    LET attrs == S.metaclasses[inst[1]].attributes
        __setattr__(hits) ==
            IF hits # {}
            THEN [S EXCEPT !.idict[inst] = DictSet(@, attrs[Min(hits)][1], value),
                           !.cache[inst[1]] = EmptyDict]
            ELSE [S EXCEPT !.idict[inst] = DictSet(@, name, value)]
    IN  __setattr__({i \in DOMAIN attrs : upper(attrs[i][1]) = upper(name)})

\* _is_null without the null values of the types: only None is null
_is_null_untyped(S, inst, name) == getattr(S, inst, name) = None

\* _is_null(instance, name), for an attribute that getattr can read
_is_null(S, inst, name) ==
    LET attrs == S.metaclasses[inst[1]].attributes
        null_of(value, attr_ty) ==
            IF attr_ty = cUNIQUE_ID THEN value = PyInt(0)
            ELSE IF attr_ty = cSTRING THEN value = PyStr("")
            ELSE FALSE
        typed(value, hits) ==
            IF hits = {} THEN FALSE ELSE null_of(value, upper(attrs[Min(hits)][2]))
        test(value) ==
            IF Truthy(value) THEN FALSE
            ELSE IF value = None THEN TRUE
            ELSE typed(value, {i \in DOMAIN attrs : upper(attrs[i][1]) = upper(name)})
    IN  test(getattr(S, inst, name))

\* ------------------------------------------------------------ Query
\* A Query is [items, result, pos, evaluation]: items the (name, value) pairs
\* in dict order, result the matches found so far, pos the number of elements
\* of the storage list that the generator's list iterator has consumed,
\* evaluation "paused" while the generator can resume, "none" once it ran to
\* its end (self.evaluation = None), "dead" once an exception left it.
NewQuery(items) == [items |-> items, result |-> <<>>, pos |-> 0, evaluation |-> "paused"]

\* the inner loop of Query.evaluate on one instance: "match", "nomatch" or
\* "error" (getattr raised AttributeError)
RECURSIVE Query_match(_, _, _)
Query_match(S, inst, items) ==
    LET test(name, value, got) ==
            IF got = AttributeError THEN "error"
            ELSE IF PyNe(got, value) \/ _is_null(S, inst, name) THEN "nomatch"
            ELSE Query_match(S, inst, Tail(items))
    IN  IF items = <<>> THEN "match"
        ELSE test(Head(items)[1], Head(items)[2], getattr(S, inst, Head(items)[1]))

\* next(self.evaluation): the Query afterwards, the instance yielded (NoInst
\* when the generator ended: StopIteration) and whether it raised
RECURSIVE Query_evaluate(_, _, _)
Query_evaluate(S, pool, q) ==
    LET step(inst, m) ==
            IF m = "error"
            THEN [q |-> [q EXCEPT !.pos = @ + 1, !.evaluation = "dead"],
                  inst |-> NoInst, exc |-> "AttributeError"]
            ELSE IF m = "match"
            THEN [q |-> [q EXCEPT !.pos = @ + 1, !.result = Append(@, inst)],
                  inst |-> inst, exc |-> "none"]
            ELSE Query_evaluate(S, pool, [q EXCEPT !.pos = @ + 1])
        visit(inst) == step(inst, Query_match(S, inst, q.items))
    IN  IF q.pos >= Len(pool)
        THEN [q |-> [q EXCEPT !.evaluation = "none"], inst |-> NoInst, exc |-> "none"]
        ELSE visit(pool[q.pos + 1])

\* the tail of Query.execute, consumed to its end:
\*     while self.evaluation: yield next(self.evaluation)
\* next() of a generator that ended or died raises StopIteration, which ends
\* execute (the semantics of the Python versions this code runs on)
RECURSIVE Query_drain(_, _, _)
Query_drain(S, pool, q) ==
    LET yield(r, rest) == [q |-> rest.q, seq |-> <<r.inst>> \o rest.seq, exc |-> rest.exc]
        loop(r) ==
            IF r.exc # "none" \/ r.inst = NoInst
            THEN [q |-> r.q, seq |-> <<>>, exc |-> r.exc]
            ELSE yield(r, Query_drain(S, pool, r.q))
    IN  IF q.evaluation # "paused" THEN [q |-> q, seq |-> <<>>, exc |-> "none"]
        ELSE loop(Query_evaluate(S, pool, q))

\* Query.execute without its first loop (for inst in self.result: yield inst)
Query_execute_without_replay(S, pool, q) ==
    LET all(r) == [q |-> r.q, seq |-> r.seq, exc |-> r.exc]
    IN  all(Query_drain(S, pool, q))

\* Query.execute consumed to its end: [q, seq, exc]
Query_execute(S, pool, q) ==
    LET all(r) == [q |-> r.q, seq |-> q.result \o r.seq, exc |-> r.exc]
    IN  all(Query_drain(S, pool, q))

\* next(Query.execute(), None): [q, inst, exc]
Query_execute_first(S, pool, q) ==
    IF q.result # <<>> THEN [q |-> q, inst |-> q.result[1], exc |-> "none"]
    ELSE IF q.evaluation # "paused" THEN [q |-> q, inst |-> NoInst, exc |-> "none"]
    ELSE Query_evaluate(S, pool, q)

\* MetaClass.query up to the Query it executes: the cache afterwards
\*     index = frozenset(list(dictonary_of_values.items()))
\*     if index not in self.cache: self.cache[index] = Query(self.storage, ...)
query_cache(S, c, items) ==
    IF Range(items) \in DOMAIN S.cache[c] THEN S.cache[c]
    ELSE DictSet(S.cache[c], Range(items), NewQuery(items))

\* for inst in metaclass.query(items): consumed to its end. [st, seq, exc]
MetaClass_query(S, c, items) ==
    LET done(ch, r) ==
            [st |-> [S EXCEPT !.cache[c] = DictSet(ch, Range(items), r.q)],
             seq |-> r.seq, exc |-> r.exc]
        run(ch) == done(ch, Query_execute(S, S.storage[c], ch[Range(items)]))
    IN  run(query_cache(S, c, items))

\* next(metaclass.query(items), None). [st, inst, exc]
MetaClass_query_first(S, c, items) ==
    LET done(ch, r) ==
            [st |-> [S EXCEPT !.cache[c] = DictSet(ch, Range(items), r.q)],
             inst |-> r.inst, exc |-> r.exc]
        run(ch) == done(ch, Query_execute_first(S, S.storage[c], ch[Range(items)]))
    IN  run(query_cache(S, c, items))

\* ---------------------------------------------------------- MetaClass
\* MetaModel.find_metaclass: the metaclass of a kind, 0 for UnknownClassException
find_metaclass(S, kind) ==
    LET first(hits) == IF hits = {} THEN 0 ELSE Min(hits)
    IN  first({c \in DOMAIN S.metaclasses : upper(S.metaclasses[c].kind) = upper(kind)})

\* self.links[key] = link
links_put(items, key, link) ==
    IF \E i \in DOMAIN items : items[i][1] = key
    THEN [i \in DOMAIN items |-> IF items[i][1] = key THEN <<key, link>> ELSE items[i]]
    ELSE Append(items, <<key, link>>)

\* self.links.get(key, None): the link, or <<0, "none">>
links_get(items, key) ==
    IF \E i \in DOMAIN items : items[i][1] = key
    THEN items[CHOOSE i \in DOMAIN items : items[i][1] = key][2]
    ELSE <<0, "none">>

\* Link.__init__
Link(from_metaclass, rel_id, to_metaclass, phrase, conditional, many) ==
    [from_metaclass |-> from_metaclass, rel_id |-> norm_rel_id(rel_id),
     to_metaclass |-> to_metaclass, key_map |-> <<>>, phrase |-> phrase,
     conditional |-> conditional, many |-> many]

\* the key MetaClass.add_link files a link under; rel_id as it was passed
link_key(S, metaclass, rel_id, phrase) ==
    <<upper(S.metaclasses[metaclass].kind), rel_id, phrase>>

\* MetaClass.find_link
find_link(S, c, kind, rel_id, phrase) ==
    links_get(S.metaclasses[c].links, <<upper(kind), <<"str", norm_rel_id(rel_id)>>, phrase>>)

\* MetaClass.navigate, had it returned no instances for a key that is not in
\* self.links
MetaClass_navigate_or_empty(S, inst, kind, rel_id, phrase) ==
    LET follow(ref) ==
            IF ref[1] = 0 THEN [set |-> {}, exc |-> "none"]
            ELSE [set |-> Link_navigate(S.links[ref[1]][ref[2]], inst), exc |-> "none"]
    IN  follow(links_get(S.metaclasses[inst[1]].links, <<upper(kind), rel_id, phrase>>))

\* MetaClass.navigate: [set, exc]; rel_id is compared as it was passed
MetaClass_navigate(S, inst, kind, rel_id, phrase) ==
    LET follow(ref) ==
            IF ref[1] = 0 THEN [set |-> {}, exc |-> "UnknownLinkException"]
            ELSE [set |-> Link_navigate(S.links[ref[1]][ref[2]], inst), exc |-> "none"]
    IN  follow(links_get(S.metaclasses[inst[1]].links, <<upper(kind), rel_id, phrase>>))

\* NavChain._nav from one instance, then NavChain.__call__ without where-clause
navigate_many(S, inst, kind, rel_id, phrase) ==
    MetaClass_navigate(S, inst, kind, <<"str", norm_rel_id(rel_id)>>, phrase)

\* ------------------------------------------------------ MetaModel
\* MetaModel.define_association: [st, exc]
define_association(S, rel_id, source_kind, source_keys, source_many, source_conditional, source_phrase, target_kind, target_keys, target_many, target_conditional, target_phrase) ==
    LET define(rid, source_metaclass, target_metaclass, n) ==
            LET source_link == Link(target_metaclass, rid, source_metaclass,
                                    source_phrase, source_conditional, source_many)
                target_link == Link(source_metaclass, rid, target_metaclass,
                                    target_phrase, target_conditional, target_many)
                mc1 == [S.metaclasses EXCEPT ![target_metaclass].links =
                           links_put(@, link_key(S, source_metaclass, rid, source_phrase),
                                     <<n, "source">>)]
                mc2 == [mc1 EXCEPT ![source_metaclass].links =
                           links_put(@, link_key(S, target_metaclass, rid, target_phrase),
                                     <<n, "target">>)]
                ass == [rel_id |-> rid[2], source_keys |-> source_keys,
                        source_link |-> source_link, target_keys |-> target_keys,
                        target_link |-> target_link]
            IN  IF source_metaclass = 0 \/ target_metaclass = 0
                THEN [st |-> S, exc |-> "UnknownClassException"]
                ELSE [st |-> [S EXCEPT !.metaclasses = mc2,
                                       !.associations = Append(@, ass),
                                       !.links = Append(@, [source |-> EmptyLink,
                                                            target |-> EmptyLink])],
                      exc |-> "none"]
    IN  define(<<"str", norm_rel_id(rel_id)>>, find_metaclass(S, source_kind),
               find_metaclass(S, target_kind), Len(S.associations) + 1)

\* ---------------------------------------------------- Association
\* the properties the loop of Association.formalize sets on the source class
RECURSIVE formalize_props(_, _, _, _)
formalize_props(clazz, pairs, a, conditional) ==
    IF pairs = <<>> THEN clazz
    ELSE LET ref_key == Head(pairs)[1]
             prop == [link |-> <<a, "target">>, ref_name |-> Head(pairs)[2]]
         IN  formalize_props(
                 IF ~conditional \/ ref_key \notin DOMAIN clazz
                 THEN DictSet(clazz, ref_key, prop) ELSE clazz,
                 Tail(pairs), a, conditional)

\* Association.formalize, had it not set the properties on the source class
Association_formalize_without_property(S, a) ==
    LET ass == S.associations[a]
        source_class == ass.source_link.to_metaclass
        target_class == ass.target_link.to_metaclass
        ass1 == [ass EXCEPT !.source_link.key_map = zip(ass.source_keys, ass.target_keys),
                            !.target_link.key_map = zip(ass.target_keys, ass.source_keys)]
        mc1 == [S.metaclasses EXCEPT ![source_class].referential_attributes =
                                          @ \cup Range(ass.source_keys)]
        mc2 == [mc1 EXCEPT ![target_class].identifying_attributes =
                                          @ \cup Range(ass.target_keys)]
    IN  [S EXCEPT !.associations[a] = ass1, !.metaclasses = mc2]

\* Association.formalize, had it given both Links the same key map
Association_formalize_same_map(S, a) ==
    LET ass == S.associations[a]
        source_class == ass.source_link.to_metaclass
        target_class == ass.target_link.to_metaclass
        ass1 == [ass EXCEPT !.source_link.key_map = zip(ass.source_keys, ass.target_keys),
                            !.target_link.key_map = zip(ass.source_keys, ass.target_keys)]
        mc1 == [S.metaclasses EXCEPT ![source_class].referential_attributes =
                                          @ \cup Range(ass.source_keys)]
        mc2 == [mc1 EXCEPT ![target_class].identifying_attributes =
                                          @ \cup Range(ass.target_keys)]
        mc3 == [mc2 EXCEPT ![source_class].clazz =
                   formalize_props(@, zip(ass.source_keys, ass.target_keys), a,
                                   ass.target_link.conditional)]
    IN  [S EXCEPT !.associations[a] = ass1, !.metaclasses = mc3]

\* Association.formalize of association a: the state afterwards
Association_formalize(S, a) ==
    LET ass == S.associations[a]
        source_class == ass.source_link.to_metaclass
        target_class == ass.target_link.to_metaclass
        ass1 == [ass EXCEPT !.source_link.key_map = zip(ass.source_keys, ass.target_keys),
                            !.target_link.key_map = zip(ass.target_keys, ass.source_keys)]
        mc1 == [S.metaclasses EXCEPT ![source_class].referential_attributes =
                                          @ \cup Range(ass.source_keys)]
        mc2 == [mc1 EXCEPT ![target_class].identifying_attributes =
                                          @ \cup Range(ass.target_keys)]
        mc3 == [mc2 EXCEPT ![source_class].clazz =
                   formalize_props(@, zip(ass.source_keys, ass.target_keys), a,
                                   ass.target_link.conditional)]
    IN  [S EXCEPT !.associations[a] = ass1, !.metaclasses = mc3]

\* ------------------------------------------------- relate / unrelate
\* _find_link, had each branch compared the phrase of the Link whose ends it
\* compares
_find_link_own_phrase(S, inst1, inst2, rel_id, phrase) ==
    LET metaclass1 == inst1[1]
        metaclass2 == inst2[1]
        first(ass) == /\ ass.source_link.from_metaclass = metaclass1
                      /\ ass.source_link.to_metaclass = metaclass2
                      /\ ass.source_link.phrase = phrase
        second(ass) == /\ ass.target_link.from_metaclass = metaclass1
                       /\ ass.target_link.to_metaclass = metaclass2
                       /\ ass.target_link.phrase = phrase
        found(a) ==
            IF first(S.associations[a])
            THEN [exc |-> "none", inst1 |-> inst1, inst2 |-> inst2, ass |-> a]
            ELSE [exc |-> "none", inst1 |-> inst2, inst2 |-> inst1, ass |-> a]
        search(hits) ==
            IF hits = {}
            THEN [exc |-> "UnknownLinkException", inst1 |-> inst1, inst2 |-> inst2, ass |-> 0]
            ELSE found(Min(hits))
        candidates(rid) ==
            {a \in DOMAIN S.associations :
                /\ S.associations[a].rel_id = rid
                /\ first(S.associations[a]) \/ second(S.associations[a])}
    IN  search(candidates(norm_rel_id(rel_id)))

\* _find_link returning the instances as they were passed when the
\* association is found by the phrase of its source Link
_find_link_unswapped(S, inst1, inst2, rel_id, phrase) ==
    LET metaclass1 == inst1[1]
        metaclass2 == inst2[1]
        first(ass) == /\ ass.source_link.from_metaclass = metaclass1
                      /\ ass.source_link.to_metaclass = metaclass2
                      /\ ass.target_link.phrase = phrase
        second(ass) == /\ ass.target_link.from_metaclass = metaclass1
                       /\ ass.target_link.to_metaclass = metaclass2
                       /\ ass.source_link.phrase = phrase
        found(a) ==
            IF first(S.associations[a])
            THEN [exc |-> "none", inst1 |-> inst1, inst2 |-> inst2, ass |-> a]
            ELSE [exc |-> "none", inst1 |-> inst1, inst2 |-> inst2, ass |-> a]
        search(hits) ==
            IF hits = {}
            THEN [exc |-> "UnknownLinkException", inst1 |-> inst1, inst2 |-> inst2, ass |-> 0]
            ELSE found(Min(hits))
        candidates(rid) ==
            {a \in DOMAIN S.associations :
                /\ S.associations[a].rel_id = rid
                /\ first(S.associations[a]) \/ second(S.associations[a])}
    IN  search(candidates(norm_rel_id(rel_id)))

\* _find_link without the test of the relation id: the first association
\* between the classes whose phrase fits
_find_link_any_rel_id(S, inst1, inst2, rel_id, phrase) ==
    LET metaclass1 == inst1[1]
        metaclass2 == inst2[1]
        first(ass) == /\ ass.source_link.from_metaclass = metaclass1
                      /\ ass.source_link.to_metaclass = metaclass2
                      /\ ass.target_link.phrase = phrase
        second(ass) == /\ ass.target_link.from_metaclass = metaclass1
                       /\ ass.target_link.to_metaclass = metaclass2
                       /\ ass.source_link.phrase = phrase
        found(a) ==
            IF first(S.associations[a])
            THEN [exc |-> "none", inst1 |-> inst1, inst2 |-> inst2, ass |-> a]
            ELSE [exc |-> "none", inst1 |-> inst2, inst2 |-> inst1, ass |-> a]
        search(hits) ==
            IF hits = {}
            THEN [exc |-> "UnknownLinkException", inst1 |-> inst1, inst2 |-> inst2, ass |-> 0]
            ELSE found(Min(hits))
        candidates(rid) ==
            {a \in DOMAIN S.associations :
                first(S.associations[a]) \/ second(S.associations[a])}
    IN  search(candidates(norm_rel_id(rel_id)))

\* _find_link: [exc, inst1, inst2, ass]
_find_link(S, inst1, inst2, rel_id, phrase) ==
    LET metaclass1 == inst1[1]
        metaclass2 == inst2[1]
        first(ass) == /\ ass.source_link.from_metaclass = metaclass1
                      /\ ass.source_link.to_metaclass = metaclass2
                      /\ ass.target_link.phrase = phrase
        second(ass) == /\ ass.target_link.from_metaclass = metaclass1
                       /\ ass.target_link.to_metaclass = metaclass2
                       /\ ass.source_link.phrase = phrase
        found(a) ==
            IF first(S.associations[a])
            THEN [exc |-> "none", inst1 |-> inst1, inst2 |-> inst2, ass |-> a]
            ELSE [exc |-> "none", inst1 |-> inst2, inst2 |-> inst1, ass |-> a]
        search(hits) ==
            IF hits = {}
            THEN [exc |-> "UnknownLinkException", inst1 |-> inst1, inst2 |-> inst2, ass |-> 0]
            ELSE found(Min(hits))
        candidates(rid) ==
            {a \in DOMAIN S.associations :
                /\ S.associations[a].rel_id = rid
                /\ first(S.associations[a]) \/ second(S.associations[a])}
    IN  search(candidates(norm_rel_id(rel_id)))

\* relate: [st, ret, exc]
relate(S, from_instance, to_instance, rel_id, phrase) ==
    LET target_side(f, S1, c2) ==
            [st |-> [S1 EXCEPT !.links[f.ass].target = c2.nb], ret |-> c2.ok,
             exc |-> IF c2.ok THEN "none" ELSE "RelateException"]
        source_side(f, ass, S1, c1) ==
            IF ~c1.ok THEN [st |-> S1, ret |-> FALSE, exc |-> "RelateException"]
            ELSE target_side(f, S1, Link_connect(ass.target_link, S1.links[f.ass].target,
                                                 f.inst2, f.inst1, TRUE))
        connect(f, ass, c1) ==
            source_side(f, ass, [S EXCEPT !.links[f.ass].source = c1.nb], c1)
        found(f) ==
            IF f.exc # "none" THEN [st |-> S, ret |-> FALSE, exc |-> f.exc]
            ELSE connect(f, S.associations[f.ass],
                         Link_connect(S.associations[f.ass].source_link,
                                      S.links[f.ass].source, f.inst1, f.inst2, TRUE))
    IN  IF NoInst \in {from_instance, to_instance}
        THEN [st |-> S, ret |-> FALSE, exc |-> "none"]
        ELSE found(_find_link(S, from_instance, to_instance, rel_id, phrase))

\* unrelate without the test for None: _find_link reads the __metaclass__
\* of None, which raises AttributeError
unrelate_none_unchecked(S, from_instance, to_instance, rel_id, phrase) ==
    LET target_side(f, S1, d2) ==
            [st |-> [S1 EXCEPT !.links[f.ass].target = d2.nb], ret |-> d2.ok,
             exc |-> IF d2.ok THEN "none" ELSE "UnrelateException"]
        source_side(f, S1, d1) ==
            IF ~d1.ok THEN [st |-> S1, ret |-> FALSE, exc |-> "UnrelateException"]
            ELSE target_side(f, S1, Link_disconnect(S1.links[f.ass].target,
                                                    f.inst2, f.inst1))
        disconnect(f, d1) ==
            source_side(f, [S EXCEPT !.links[f.ass].source = d1.nb], d1)
        found(f) ==
            IF f.exc # "none" THEN [st |-> S, ret |-> FALSE, exc |-> f.exc]
            ELSE disconnect(f, Link_disconnect(S.links[f.ass].source, f.inst1, f.inst2))
    IN  IF NoInst \in {from_instance, to_instance}
        THEN [st |-> S, ret |-> FALSE, exc |-> "AttributeError"]
        ELSE found(_find_link(S, from_instance, to_instance, rel_id, phrase))

\* unrelate: [st, ret, exc]
unrelate(S, from_instance, to_instance, rel_id, phrase) ==
    LET target_side(f, S1, d2) ==
            [st |-> [S1 EXCEPT !.links[f.ass].target = d2.nb], ret |-> d2.ok,
             exc |-> IF d2.ok THEN "none" ELSE "UnrelateException"]
        source_side(f, S1, d1) ==
            IF ~d1.ok THEN [st |-> S1, ret |-> FALSE, exc |-> "UnrelateException"]
            ELSE target_side(f, S1, Link_disconnect(S1.links[f.ass].target,
                                                    f.inst2, f.inst1))
        disconnect(f, d1) ==
            source_side(f, [S EXCEPT !.links[f.ass].source = d1.nb], d1)
        found(f) ==
            IF f.exc # "none" THEN [st |-> S, ret |-> FALSE, exc |-> f.exc]
            ELSE disconnect(f, Link_disconnect(S.links[f.ass].source, f.inst1, f.inst2))
    IN  IF NoInst \in {from_instance, to_instance}
        THEN [st |-> S, ret |-> FALSE, exc |-> "none"]
        ELSE found(_find_link(S, from_instance, to_instance, rel_id, phrase))

\* ------------------------------------------- Association.batch_relate
\* the inner loop of batch_relate: connect inst1 with every inst2 of seq
RECURSIVE batch_connect(_, _, _, _)
batch_connect(S, a, inst1, seq) ==
    IF seq = <<>> THEN S
    ELSE LET ass == S.associations[a]
             inst2 == Head(seq)
             c1 == Link_connect(ass.source_link, S.links[a].source, inst2, inst1, FALSE)
             c2 == Link_connect(ass.target_link, S.links[a].target, inst1, inst2, FALSE)
         IN  batch_connect([S EXCEPT !.links[a].source = c1.nb,
                                     !.links[a].target = c2.nb],
                           a, inst1, Tail(seq))

\* kwargs[primary_key] = getattr(inst1, ref_key), for every pair of keys
batch_kwargs(S, inst1, pairs) ==
    [i \in DOMAIN pairs |-> <<pairs[i][2], getattr(S, inst1, pairs[i][1])>>]

\* Association.batch_relate from the k-th instance of the source class on:
\* [st, exc].  The instances a query yields are connected once the query is
\* consumed: connecting changes no attribute that the query reads.
RECURSIVE batch_relate_from(_, _, _)
batch_relate_from(S, a, k) ==
    LET ass == S.associations[a]
        source_class == ass.source_link.to_metaclass
        target_class == ass.target_link.to_metaclass
        connected(r, S1) ==
            IF r.exc # "none" THEN [st |-> S1, exc |-> r.exc]
            ELSE batch_relate_from(S1, a, k + 1)
        queried(inst1, r) == connected(r, batch_connect(r.st, a, inst1, r.seq))
        each(inst1, kwargs) ==
            IF \E i \in DOMAIN kwargs : kwargs[i][2] = AttributeError
            THEN [st |-> S, exc |-> "AttributeError"]
            ELSE queried(inst1, MetaClass_query(S, target_class, kwargs))
    IN  IF k > Len(S.storage[source_class]) THEN [st |-> S, exc |-> "none"]
        ELSE each(S.storage[source_class][k],
                  batch_kwargs(S, S.storage[source_class][k],
                               zip(ass.source_keys, ass.target_keys)))

Association_batch_relate(S, a) == batch_relate_from(S, a, 1)

\* ------------------------------------------------------ MetaClass.new
\* next(id_generator), the n-th time: a value that differs from every id
\* issued before and from the null id
next_id(n) == <<"uuid", n>>

\* MetaClass.default_value: [value, issued, exc]; issued is the number of ids
\* the id generator has issued afterwards.
default_value(S, type_name) ==
    LET of(uname) ==
            CASE uname = cBOOLEAN -> [value |-> PyBool(FALSE), issued |-> S.id_generator, exc |-> "none"]
              [] uname = cINTEGER -> [value |-> PyInt(0), issued |-> S.id_generator, exc |-> "none"]
              [] uname = cREAL -> [value |-> <<"real", 0>>, issued |-> S.id_generator, exc |-> "none"]
              [] uname = cSTRING -> [value |-> PyStr(""), issued |-> S.id_generator, exc |-> "none"]
              [] uname = cUNIQUE_ID -> [value |-> next_id(S.id_generator + 1),
                                        issued |-> S.id_generator + 1, exc |-> "none"]
              [] OTHER -> [value |-> None, issued |-> S.id_generator, exc |-> "MetaException"]
    IN  of(upper(type_name))

\* "set all attributes with an initial default value", from attribute k on
RECURSIVE new_defaults(_, _, _)
new_defaults(S, inst, k) ==
    LET mc == S.metaclasses[inst[1]]
        set(name, dv) ==
            IF dv.exc # "none" THEN [st |-> S, exc |-> dv.exc]
            ELSE new_defaults(setattr([S EXCEPT !.id_generator = dv.issued],
                                      inst, name, dv.value),
                              inst, k + 1)
    IN  IF k > Len(mc.attributes) THEN [st |-> S, exc |-> "none"]
        ELSE IF mc.attributes[k][1] \in mc.referential_attributes
        THEN new_defaults(S, inst, k + 1)
        ELSE set(mc.attributes[k][1], default_value(S, mc.attributes[k][2]))

\* "set all positional arguments" then "set all named arguments": items are
\* the (name, value) pairs in that order; [st, refs], refs the dict
\* referential_attributes
RECURSIVE new_assign(_, _, _, _)
new_assign(S, inst, items, refs) ==
    IF items = <<>> THEN [st |-> S, refs |-> refs]
    ELSE LET name == Head(items)[1]
             value == Head(items)[2]
         IN  IF name \notin S.metaclasses[inst[1]].referential_attributes
             THEN new_assign(setattr(S, inst, name, value), inst, Tail(items), refs)
             ELSE new_assign(S, inst, Tail(items), DictSet(refs, name, value))

\* for other_inst in link.to_metaclass.query(kwargs):
\*     relate(other_inst, inst, link.rel_id, link.phrase)
\* from the k-th instance that the query yields on; n0 is the length of the
\* Query's result when execute() started.  [st, exc]
RECURSIVE new_relate_each(_, _, _, _, _, _, _)
new_relate_each(S, inst, to_metaclass, kwargs, lk, k, n0) ==
    LET related(rr) ==
            IF rr.exc # "none" THEN [st |-> rr.st, exc |-> rr.exc]
            ELSE new_relate_each(rr.st, inst, to_metaclass, kwargs, lk, k + 1, n0)
        body(f) ==
            IF f.exc # "none" \/ f.inst = NoInst THEN [st |-> f.st, exc |-> f.exc]
            ELSE related(relate(f.st, f.inst, inst, <<"str", lk.rel_id>>, lk.phrase))
        pull(r) ==
            [st |-> [S EXCEPT !.cache[to_metaclass] = DictSet(@, Range(kwargs), r.q)],
             inst |-> r.inst, exc |-> r.exc]
        yield(q) ==
            IF k <= n0 THEN [st |-> S, inst |-> q.result[k], exc |-> "none"]
            ELSE IF q.evaluation # "paused" THEN [st |-> S, inst |-> NoInst, exc |-> "none"]
            ELSE pull(Query_evaluate(S, S.storage[to_metaclass], q))
        loop(q) == body(yield(q))
    IN  loop(S.cache[to_metaclass][Range(kwargs)])

\* MetaClass.new without its batch-relate pass
new_batch_relate_skipped(S, inst, refs, k) == [st |-> S, exc |-> "none"]

\* "batch relate referential attributes", from the k-th link of self.links on
RECURSIVE new_batch_relate(_, _, _, _)
new_batch_relate(S, inst, refs, k) ==
    LET items == S.metaclasses[inst[1]].links
        done(r) ==
            IF r.exc # "none" THEN r ELSE new_batch_relate(r.st, inst, refs, k + 1)
        query(lk, kwargs, S1) ==
            done(new_relate_each(S1, inst, lk.to_metaclass, kwargs, lk, 1,
                                 Len(S1.cache[lk.to_metaclass][Range(kwargs)].result)))
        with(lk, kwargs) ==
            IF kwargs = <<>> THEN new_batch_relate(S, inst, refs, k + 1)
            ELSE query(lk, kwargs,
                       [S EXCEPT !.cache[lk.to_metaclass] =
                                     query_cache(S, lk.to_metaclass, kwargs)])
        link(lk) ==
            IF {lk.key_map[i][2] : i \in DOMAIN lk.key_map} \ DOMAIN refs # {}
            THEN new_batch_relate(S, inst, refs, k + 1)
            ELSE with(lk, [i \in DOMAIN lk.key_map |->
                              <<lk.key_map[i][1], refs[lk.key_map[i][2]]>>])
    IN  IF k > Len(items) THEN [st |-> S, exc |-> "none"]
        ELSE link(LinkOf(S, items[k][2]))

\* insert x into the sequence s so that it becomes its element number pos
InsertAt(s, pos, x) ==
    [i \in 1..(Len(s) + 1) |-> IF i < pos THEN s[i] ELSE IF i = pos THEN x ELSE s[i - 1]]

\* MetaClass.new of metaclass c: [st, ret, exc].  args are the positional
\* values, kwargs the named (name, value) pairs; hpos is where the hash of the
\* new object places it among the instances of the class.
MetaClass_new(S, c, args, kwargs, hpos) ==
    LET inst == <<c, Len(S.hashorder[c]) + 1>>
        mc == S.metaclasses[c]
        positional == [i \in 1..(IF Len(args) < Len(mc.attributes) THEN Len(args)
                                 ELSE Len(mc.attributes))
                          |-> <<mc.attributes[i][1], args[i]>>]
        related(b) ==
            IF b.exc # "none" THEN [st |-> b.st, ret |-> NoInst, exc |-> b.exc]
            ELSE [st |-> b.st, ret |-> inst, exc |-> "none"]
        assigned(a) ==
            IF DOMAIN a.refs = {} THEN [st |-> a.st, ret |-> inst, exc |-> "none"]
            ELSE related(new_batch_relate(a.st, inst, a.refs, 1))
        defaulted(d) ==
            IF d.exc # "none" THEN [st |-> d.st, ret |-> NoInst, exc |-> d.exc]
            ELSE assigned(new_assign(d.st, inst, positional \o kwargs, EmptyDict))
    IN  defaulted(new_defaults([S EXCEPT !.cache[c] = EmptyDict,
                                         !.storage[c] = Append(@, inst),
                                         !.hashorder[c] = InsertAt(@, hpos, inst)],
                               inst, 1))

\* MetaClass.delete_attribute: the state afterwards
MetaClass_delete_attribute(S, c, name) ==
    LET attrs == S.metaclasses[c].attributes
        del(idx) == SubSeq(attrs, 1, idx - 1) \o SubSeq(attrs, idx + 1, Len(attrs))
        first(hits) ==
            IF hits = {} THEN S ELSE [S EXCEPT !.metaclasses[c].attributes = del(Min(hits))]
    IN  first({idx \in DOMAIN attrs : attrs[idx][1] = name})

\* MetaClass.delete without the test for membership: an instance that is not
\* in the pool is passed over in silence
MetaClass_delete_unchecked(S, instance) ==
    [st |-> [S EXCEPT !.storage[instance[1]] = SelectSeqBy(@, Range(@) \ {instance}),
                      !.cache[instance[1]] = EmptyDict],
     exc |-> "none"]

\* MetaClass.delete: [st, exc]
MetaClass_delete(S, instance) ==
    LET c == instance[1]
        pool == S.storage[c]
        i == Min({j \in DOMAIN pool : pool[j] = instance})
    IN  IF instance \in Range(pool)
        THEN [st |-> [S EXCEPT !.storage[c] = SubSeq(pool, 1, i - 1) \o
                                               SubSeq(pool, i + 1, Len(pool)),
                               !.cache[c] = EmptyDict],
              exc |-> "none"]
        ELSE [st |-> S, exc |-> "DeleteException"]

\* MetaClass.select_many with a dict for where-clause: [st, seq, exc]; seq is
\* the QuerySet (an ordered set: the first occurrences, in order)
RECURSIVE OrderedSet(_)
OrderedSet(seq) ==
    IF seq = <<>> THEN <<>>
    ELSE LET init == OrderedSet(SubSeq(seq, 1, Len(seq) - 1))
         IN  IF seq[Len(seq)] \in Range(init) THEN init ELSE Append(init, seq[Len(seq)])

select_many(S, c, where_clause) ==
    LET QuerySet(r) ==
            [st |-> r.st, seq |-> IF r.exc = "none" THEN OrderedSet(r.seq) ELSE <<>>,
             exc |-> r.exc]
    IN  QuerySet(MetaClass_query(S, c, where_clause))

\* MetaClass.select_one with a dict for where-clause: [st, inst, exc]
select_one(S, c, where_clause) == MetaClass_query_first(S, c, where_clause)


\* MetaClass.select_many without where-clause, QuerySet(filter(None, storage)):
\* an instance is an object without __bool__ or __len__, hence true
select_many_all(S, c) == OrderedSet(S.storage[c])

\* NavChain._nav from one instance: the instances that iterating
\* MetaClass.navigate(inst, kind, rel_id, phrase) yields, in the order of the
\* iteration. [seq, exc]
NavChain_nav(S, inst, kind, rel_id, phrase) ==
    LET iterate(r) == [seq |-> IterSet(S, r.set), exc |-> r.exc]
    IN  iterate(MetaClass_navigate(S, inst, kind, <<"str", norm_rel_id(rel_id)>>, phrase))

\* navigate_one(inst).nav(kind, rel_id, phrase)(): the first neighbor that
\* iterating the neighbor set gives, or None. [inst, exc]
navigate_one(S, inst, kind, rel_id, phrase) ==
    LET first(r) == [inst |-> FirstOf(S, r.set), exc |-> r.exc]
    IN  first(MetaClass_navigate(S, inst, kind, <<"str", norm_rel_id(rel_id)>>, phrase))

\* sort_reflexive, "Figure out the phrase in the other direction": the phrase
\* of the first link that the loop over metaclass.links.values() does not
\* skip, in a sequence; the empty sequence when it skips them all
find_other_phrase(S, metaclass, rel_id, phrase) ==
    LET items == S.metaclasses[metaclass].links
        link(i) == LinkOf(S, items[i][2])
        first(hits) == IF hits = {} THEN <<>> ELSE <<link(Min(hits)).phrase>>
    IN  first({i \in DOMAIN items : /\ link(i).to_metaclass = metaclass
                                    /\ link(i).rel_id = norm_rel_id(rel_id)
                                    /\ link(i).phrase # phrase})

\* sort_reflexive, first_instances = list(filter(first_filt, set_of_instances)):
\* [seq, exc]
RECURSIVE first_instances(_, _, _, _, _, _)
first_instances(S, set_of_instances, kind, rel_id, phrase, k) ==
    LET keep(r, rest) ==
            IF r.exc # "none" THEN [seq |-> <<>>, exc |-> r.exc]
            ELSE [seq |-> (IF r.inst = NoInst THEN <<set_of_instances[k]>> ELSE <<>>) \o rest.seq,
                  exc |-> rest.exc]
    IN  IF k > Len(set_of_instances) THEN [seq |-> <<>>, exc |-> "none"]
        ELSE keep(navigate_one(S, set_of_instances[k], kind, rel_id, phrase),
                  first_instances(S, set_of_instances, kind, rel_id, phrase, k + 1))

\* sort_reflexive, the while loop of sequence_generator from one of the first
\* instances: [seq, exc]; a walk that comes back to an instance other than
\* the first never ends ("endless")
RECURSIVE sequence_from(_, _, _, _, _, _, _)
sequence_from(S, kind, rel_id, other_phrase, first, inst, seen) ==
    LET yield(rest) == [seq |-> <<inst>> \o rest.seq, exc |-> rest.exc]
        step(r) ==
            IF r.exc # "none" THEN [seq |-> <<inst>>, exc |-> r.exc]
            ELSE IF r.inst = first THEN [seq |-> <<inst>>, exc |-> "none"]
            ELSE yield(sequence_from(S, kind, rel_id, other_phrase, first, r.inst, seen \cup {inst}))
    IN  IF inst = NoInst THEN [seq |-> <<>>, exc |-> "none"]
        ELSE IF inst \in seen THEN [seq |-> <<>>, exc |-> "endless"]
        ELSE step(navigate_one(S, inst, kind, rel_id, other_phrase))

\* sort_reflexive, sequence_generator over the first instances from the k-th on
RECURSIVE sequence_generator(_, _, _, _, _, _)
sequence_generator(S, kind, rel_id, other_phrase, firsts, k) ==
    LET then(r) ==
            IF r.exc # "none" THEN r
            ELSE LET more(rest) == [seq |-> r.seq \o rest.seq, exc |-> rest.exc]
                 IN  more(sequence_generator(S, kind, rel_id, other_phrase, firsts, k + 1))
    IN  IF k > Len(firsts) THEN [seq |-> <<>>, exc |-> "none"]
        ELSE then(sequence_from(S, kind, rel_id, other_phrase, firsts[k], firsts[k], {}))

\* sort_reflexive(set_of_instances, rel_id, phrase), the QuerySet consumed:
\* [seq, exc]; set_of_instances is a QuerySet, the sequence of its elements
sort_reflexive(S, set_of_instances, rel_id, phrase) ==
    LET metaclass == set_of_instances[1][1]
        kind == S.metaclasses[metaclass].kind
        QuerySet(r) == [seq |-> IF r.exc = "none" THEN OrderedSet(r.seq) ELSE <<>>, exc |-> r.exc]
        generate(other_phrase, f) ==
            IF f.exc # "none" THEN [seq |-> <<>>, exc |-> f.exc]
            ELSE QuerySet(sequence_generator(S, kind, rel_id, other_phrase,
                     IF f.seq = <<>> THEN <<set_of_instances[1]>> ELSE f.seq, 1))
        found(others) ==
            IF others = <<>> THEN [seq |-> <<>>, exc |-> "UnknownLinkException"]
            ELSE generate(others[1],
                          first_instances(S, set_of_instances, kind, rel_id, phrase, 1))
    IN  IF set_of_instances = <<>> THEN [seq |-> <<>>, exc |-> "none"]
        ELSE found(find_other_phrase(S, metaclass, rel_id, phrase))

\* ================================================================
\* xtuml.model: the engine that relates instances by copying key values
\* ================================================================
\* Under this engine the state holds: metaclasses[c].links the items
\* (key, Link) of MetaClass.links in insertion order, a Link being the record
\* [id, from_metaclass, rel_id, to_metaclass, key_map, phrase, conditional,
\* many, reversed], id the identity of the object, key_map the items of its
\* dict and reversed whether it is a ReversedLink; associations the records
\* [rel_id, link, reversed_link]; storage[c] the list MetaClass.instances;
\* links is not used.
KeyError == <<"exc", "KeyError">>

\* getattr(inst, name) on a BaseObject: the instance __dict__, then the class
\* attribute that append_attribute set to None under exactly this name, then
\* BaseObject.__getattr__
model_getattr(S, inst, name) ==
    LET attrs == S.metaclasses[inst[1]].attributes
        d == S.idict[inst]
        stored(attr) == IF attr \in DOMAIN d THEN d[attr] ELSE KeyError
        __getattr__(hits) ==
            IF hits # {} THEN stored(attrs[Min(hits)][1]) ELSE AttributeError
    IN  IF name \in DOMAIN d THEN d[name]
        ELSE IF \E i \in DOMAIN attrs : attrs[i][1] = name THEN None
        ELSE __getattr__({i \in DOMAIN attrs : upper(attrs[i][1]) = upper(name)})

\* BaseObject.__setattr__: the state afterwards
model_setattr(S, inst, name, value) ==
    LET attrs == S.metaclasses[inst[1]].attributes
        __setattr__(hits) ==
            IF hits # {}
            THEN [S EXCEPT !.idict[inst] = DictSet(@, attrs[Min(hits)][1], value),
                           !.cache[inst[1]] = EmptyDict]
            ELSE [S EXCEPT !.idict[inst] = DictSet(@, name, value)]
    IN  __setattr__({i \in DOMAIN attrs : upper(attrs[i][1]) = upper(name)})

\* _is_null(instance, name), for an attribute that getattr can read
model_is_null(S, inst, name) ==
    LET attrs == S.metaclasses[inst[1]].attributes
        null_of(value, attr_ty) ==
            IF attr_ty = cUNIQUE_ID THEN value = PyInt(0)
            ELSE IF attr_ty = cSTRING THEN value = PyStr("")
            ELSE FALSE
        typed(value, hits) ==
            IF hits = {} THEN FALSE ELSE null_of(value, upper(attrs[Min(hits)][2]))
        test(value) ==
            IF Truthy(value) THEN FALSE
            ELSE IF value = None THEN TRUE
            ELSE typed(value, {i \in DOMAIN attrs : upper(attrs[i][1]) = upper(name)})
    IN  test(model_getattr(S, inst, name))

\* the inner loop of Query.mk_generator on one instance: "match", "nomatch"
\* or "error" (getattr raised)
RECURSIVE model_Query_match(_, _, _)
model_Query_match(S, inst, items) ==
    LET test(name, value, got) ==
            IF got[1] = "exc" THEN "error"
            ELSE IF PyNe(got, value) \/ model_is_null(S, inst, name) THEN "nomatch"
            ELSE model_Query_match(S, inst, Tail(items))
    IN  IF items = <<>> THEN "match"
        ELSE test(Head(items)[1], Head(items)[2], model_getattr(S, inst, Head(items)[1]))

\* next(self.generator): the Query afterwards, the instance yielded (NoInst
\* when the generator ended) and whether it raised
RECURSIVE model_mk_generator(_, _, _)
model_mk_generator(S, table, q) ==
    LET step(inst, m) ==
            IF m = "error"
            THEN [q |-> [q EXCEPT !.pos = @ + 1, !.evaluation = "dead"],
                  inst |-> NoInst, exc |-> "AttributeError"]
            ELSE IF m = "match"
            THEN [q |-> [q EXCEPT !.pos = @ + 1, !.result = Append(@, inst)],
                  inst |-> inst, exc |-> "none"]
            ELSE model_mk_generator(S, table, [q EXCEPT !.pos = @ + 1])
        visit(inst) == step(inst, model_Query_match(S, inst, q.items))
    IN  IF q.pos >= Len(table)
        THEN [q |-> [q EXCEPT !.evaluation = "none"], inst |-> NoInst, exc |-> "none"]
        ELSE visit(table[q.pos + 1])

\* while self.generator: yield next(self.generator), consumed to its end
RECURSIVE model_Query_drain(_, _, _)
model_Query_drain(S, table, q) ==
    LET yield(r, rest) == [q |-> rest.q, seq |-> <<r.inst>> \o rest.seq, exc |-> rest.exc]
        loop(r) ==
            IF r.exc # "none" \/ r.inst = NoInst
            THEN [q |-> r.q, seq |-> <<>>, exc |-> r.exc]
            ELSE yield(r, model_Query_drain(S, table, r.q))
    IN  IF q.evaluation # "paused" THEN [q |-> q, seq |-> <<>>, exc |-> "none"]
        ELSE loop(model_mk_generator(S, table, q))

\* Query.execute consumed to its end: [q, seq, exc]
model_Query_execute(S, table, q) ==
    LET all(r) == [q |-> r.q, seq |-> q.result \o r.seq, exc |-> r.exc]
    IN  all(model_Query_drain(S, table, q))

\* for inst in metaclass.query(kwargs): consumed to its end. [st, seq, exc]
model_query(S, c, kwargs) ==
    LET done(ch, r) ==
            [st |-> [S EXCEPT !.cache[c] = DictSet(ch, Range(kwargs), r.q)],
             seq |-> r.seq, exc |-> r.exc]
        run(ch) == done(ch, model_Query_execute(S, S.storage[c], ch[Range(kwargs)]))
    IN  run(IF Range(kwargs) \in DOMAIN S.cache[c] THEN S.cache[c]
            ELSE DictSet(S.cache[c], Range(kwargs), NewQuery(kwargs)))

\* Link.__init__ and ReversedLink.__init__
model_Link(id, from_metaclass, rel_id, to_metaclass, key_map, phrase, conditional, many) ==
    [id |-> id, from_metaclass |-> from_metaclass, rel_id |-> norm_rel_id(rel_id),
     to_metaclass |-> to_metaclass, key_map |-> key_map, phrase |-> phrase,
     conditional |-> conditional, many |-> many, reversed |-> FALSE]

model_ReversedLink(id, from_metaclass, rel_id, to_metaclass, key_map, phrase, conditional, many) ==
    [id |-> id, from_metaclass |-> from_metaclass, rel_id |-> norm_rel_id(rel_id),
     to_metaclass |-> to_metaclass,
     key_map |-> [i \in DOMAIN key_map |-> <<key_map[i][2], key_map[i][1]>>],
     phrase |-> phrase, conditional |-> conditional, many |-> many, reversed |-> TRUE]

NoLink == [id |-> <<0, "none">>]

\* Link.navigate consumed to its end: [st, seq, exc]
model_Link_navigate(S, link, inst) ==
    LET kwargs == [i \in DOMAIN link.key_map |->
                      <<link.key_map[i][2], model_getattr(S, inst, link.key_map[i][1])>>]
    IN  IF \E i \in DOMAIN kwargs : kwargs[i][2][1] = "exc"
        THEN [st |-> S, seq |-> <<>>, exc |-> "AttributeError"]
        ELSE model_query(S, link.to_metaclass, kwargs)

\* self.links.get(key, None)
model_links_get(items, key) ==
    IF \E i \in DOMAIN items : items[i][1] = key
    THEN items[CHOOSE i \in DOMAIN items : items[i][1] = key][2]
    ELSE NoLink

\* MetaClass.find_link
model_find_link(S, c, kind, rel_id, phrase) ==
    model_links_get(S.metaclasses[c].links, <<kind, norm_rel_id(rel_id), phrase>>)

\* MetaClass.navigate consumed to its end: [st, seq, exc]
model_MetaClass_navigate(S, inst, kind, rel_id, phrase) ==
    LET follow(link) ==
            IF link = NoLink
            THEN [st |-> S, seq |-> <<>>, exc |-> "UnknownAssociationException"]
            ELSE model_Link_navigate(S, link, inst)
    IN  follow(model_links_get(S.metaclasses[inst[1]].links, <<kind, rel_id, phrase>>))

\* navigate_many(inst).nav(kind, rel_id, phrase)(): NavChain._nav from one
\* instance, then NavManyChain.__call__ without where-clause. [st, seq, exc]
model_navigate_many(S, inst, kind, rel_id, phrase) ==
    LET QuerySet(r) ==
            [st |-> r.st, seq |-> IF r.exc = "none" THEN OrderedSet(r.seq) ELSE <<>>,
             exc |-> r.exc]
    IN  QuerySet(model_MetaClass_navigate(S, inst, upper(kind), norm_rel_id(rel_id), phrase))

\* MetaClass.add_link: the metaclass afterwards
model_add_link(mc, link, metaclass_kind) ==
    LET keys == {link.key_map[i][1] : i \in DOMAIN link.key_map}
    IN  [mc EXCEPT !.links = links_put(@, <<metaclass_kind, link.rel_id, link.phrase>>, link),
                   !.identifying_attributes = IF link.reversed THEN @ \cup keys ELSE @,
                   !.referential_attributes = IF link.reversed THEN @ ELSE @ \cup keys]

\* MetaModel.find_metaclass: the metaclass of a kind, 0 for UnknownClassException
model_find_metaclass(S, kind) ==
    LET first(hits) == IF hits = {} THEN 0 ELSE Min(hits)
    IN  first({c \in DOMAIN S.metaclasses : upper(S.metaclasses[c].kind) = upper(kind)})

\* MetaModel.define_association: [st, exc]
model_define_association(S, rel_id, source_kind, source_keys, source_many, source_conditional, source_phrase, target_kind, target_keys, target_many, target_conditional, target_phrase) ==
    LET define(source_metaclass, target_metaclass, key_map, n) ==
            LET link1 == model_Link(<<n, "link">>, source_metaclass, rel_id, target_metaclass,
                                    key_map, target_phrase, target_conditional, target_many)
                link2 == model_ReversedLink(<<n, "reversed_link">>, target_metaclass, rel_id,
                                            source_metaclass, key_map, source_phrase,
                                            source_conditional, source_many)
                linked(mcs) ==
                    [mcs EXCEPT ![target_metaclass] =
                        model_add_link(@, link2, S.metaclasses[source_metaclass].kind)]
            IN  [st |-> [S EXCEPT
                    !.metaclasses = linked([@ EXCEPT ![source_metaclass] =
                        model_add_link(@, link1, S.metaclasses[target_metaclass].kind)]),
                    !.associations = Append(@, [rel_id |-> norm_rel_id(rel_id),
                                                link |-> link1, reversed_link |-> link2])],
                 exc |-> "none"]
        found(source_metaclass, target_metaclass) ==
            IF source_metaclass = 0 \/ target_metaclass = 0
            THEN [st |-> S, exc |-> "UnknownClassException"]
            ELSE define(source_metaclass, target_metaclass, zip(source_keys, target_keys),
                        Len(S.associations) + 1)
    IN  found(model_find_metaclass(S, source_kind), model_find_metaclass(S, target_kind))

\* _find_link: [from, to, link, exc]
model__find_link(S, inst1, inst2, rel_id, phrase) ==
    LET metaclass1 == S.metaclasses[inst1[1]]
        answer(from, to, link) == [from |-> from, to |-> to, link |-> link, exc |-> "none"]
        other(link, hits) ==
            IF hits = {}
            THEN [from |-> NoInst, to |-> NoInst, link |-> NoLink,
                  exc |-> "UnknownAssociationException"]
            ELSE answer(inst1, inst2, metaclass1.links[Min(hits)][2])
        second(link) ==
            IF link # NoLink /\ ~link.reversed THEN answer(inst1, inst2, link)
            ELSE other(link, {i \in DOMAIN metaclass1.links :
                                LET other_link == metaclass1.links[i][2]
                                IN  /\ other_link.id # link.id
                                    /\ other_link.to_metaclass = inst1[1]
                                    /\ other_link.rel_id = norm_rel_id(rel_id)
                                    /\ other_link.phrase # phrase})
        first(link) ==
            IF link # NoLink /\ ~link.reversed THEN answer(inst2, inst1, link)
            ELSE second(model_find_link(S, inst1[1], S.metaclasses[inst2[1]].kind, rel_id, phrase))
    IN  first(model_find_link(S, inst2[1], metaclass1.kind, rel_id, phrase))

\* _deferred_link_operation, the links of the metaclass from the k-th on:
\* [st, l, exc], l the arguments (from_inst, inst, rel_id, phrase) of the
\* deferred calls, st the state after the navigations (they fill the cache)
RECURSIVE model_deferred_link_operation(_, _, _, _)
model_deferred_link_operation(S, inst, keys, k) ==
    LET items == S.metaclasses[inst[1]].links
        more(link, nav, rest) ==
            [st |-> rest.st, exc |-> rest.exc,
             l |-> [i \in DOMAIN nav.seq |-> <<nav.seq[i], inst, link.rel_id, link.phrase>>]
                   \o rest.l]
        each(link, nav) ==
            IF nav.exc # "none" THEN [st |-> nav.st, l |-> <<>>, exc |-> nav.exc]
            ELSE more(link, nav, model_deferred_link_operation(nav.st, inst, keys, k + 1))
        visit(link) ==
            IF ~link.reversed \/
               keys \cap {link.key_map[i][2] : i \in DOMAIN link.key_map} = {}
            THEN model_deferred_link_operation(S, inst, keys, k + 1)
            ELSE each(link, model_navigate_many(S, inst, S.metaclasses[link.to_metaclass].kind,
                                                <<"str", link.rel_id>>, link.phrase))
    IN  IF k > Len(items) THEN [st |-> S, l |-> <<>>, exc |-> "none"]
        ELSE visit(items[k][2])

\* the loop of relate over link.key_map.items(), from the k-th item on:
\* [st, updated, exc]
RECURSIVE model_relate_keys(_, _, _, _, _, _)
model_relate_keys(S, from_instance, to_instance, key_map, k, updated) ==
    LET copy(from_name, from_value, to_value) ==
            IF ~PyNe(from_value, to_value)
            THEN model_relate_keys(S, from_instance, to_instance, key_map, k + 1, updated)
            ELSE IF ~model_is_null(S, from_instance, from_name)
            THEN [st |-> S, updated |-> updated, exc |-> "ModelException"]
            ELSE model_relate_keys(model_setattr(S, from_instance, from_name, to_value),
                                   from_instance, to_instance, key_map, k + 1, TRUE)
        item(from_name, to_name, from_value, to_value) ==
            IF to_value[1] = "exc"
            THEN [st |-> S, updated |-> updated, exc |-> to_value[2]]
            ELSE IF model_is_null(S, to_instance, to_name)
            THEN [st |-> S, updated |-> updated, exc |-> "ModelException"]
            ELSE IF from_value[1] = "exc"
            THEN [st |-> S, updated |-> updated, exc |-> from_value[2]]
            ELSE copy(from_name, from_value, to_value)
    IN  IF k > Len(key_map) THEN [st |-> S, updated |-> updated, exc |-> "none"]
        ELSE item(key_map[k][1], key_map[k][2],
                  model_getattr(S, from_instance, key_map[k][1]),
                  model_getattr(S, to_instance, key_map[k][2]))

\* the loop of unrelate over link.key_map, from the k-th key on
RECURSIVE model_unrelate_keys(_, _, _, _, _)
model_unrelate_keys(S, from_instance, key_map, k, updated) ==
    IF k > Len(key_map) THEN [st |-> S, updated |-> updated, exc |-> "none"]
    ELSE IF model_getattr(S, from_instance, key_map[k][1])[1] = "exc"
    THEN [st |-> S, updated |-> updated,
          exc |-> model_getattr(S, from_instance, key_map[k][1])[2]]
    ELSE IF model_is_null(S, from_instance, key_map[k][1])
    THEN [st |-> S, updated |-> updated, exc |-> "ModelException"]
    ELSE model_unrelate_keys(model_setattr(S, from_instance, key_map[k][1], None),
                             from_instance, key_map, k + 1, TRUE)

\* relate (op = "relate") and unrelate (op = "unrelate"): [st, ret, exc]
RECURSIVE model_link_operation(_, _, _, _, _, _)
RECURSIVE model_post_process(_, _, _, _)
model_link_operation(S, op, from_instance, to_instance, rel_id, phrase) ==
    LET processed(p) == [st |-> p.st, ret |-> p.exc = "none", exc |-> p.exc]
        keyed(l, r) ==
            IF r.exc # "none" THEN [st |-> r.st, ret |-> FALSE, exc |-> r.exc]
            ELSE IF ~r.updated THEN [st |-> r.st, ret |-> FALSE, exc |-> "none"]
            ELSE processed(model_post_process(r.st, op, l, 1))
        deferred(f, p) ==
            IF p.exc # "none" THEN [st |-> p.st, ret |-> FALSE, exc |-> p.exc]
            ELSE keyed(p.l,
                       IF op = "relate"
                       THEN model_relate_keys(p.st, f.from, f.to, f.link.key_map, 1, FALSE)
                       ELSE model_unrelate_keys(p.st, f.from, f.link.key_map, 1, FALSE))
        found(f) ==
            IF f.exc # "none" THEN [st |-> S, ret |-> FALSE, exc |-> f.exc]
            ELSE deferred(f, model_deferred_link_operation(S, f.from,
                                {f.link.key_map[i][1] : i \in DOMAIN f.link.key_map}, 1))
    IN  IF NoInst \in {from_instance, to_instance}
        THEN [st |-> S, ret |-> FALSE, exc |-> "none"]
        ELSE found(model__find_link(S, from_instance, to_instance, rel_id, phrase))

\* for deferred in post_process: deferred(), from the k-th on: [st, exc]
model_post_process(S, op, l, k) ==
    LET next(r) ==
            IF r.exc # "none" THEN [st |-> r.st, exc |-> r.exc]
            ELSE model_post_process(r.st, op, l, k + 1)
    IN  IF k > Len(l) THEN [st |-> S, exc |-> "none"]
        ELSE next(model_link_operation(S, op, l[k][1], l[k][2], <<"str", l[k][3]>>, l[k][4]))

model_relate(S, from_instance, to_instance, rel_id, phrase) ==
    model_link_operation(S, "relate", from_instance, to_instance, rel_id, phrase)

model_unrelate(S, from_instance, to_instance, rel_id, phrase) ==
    model_link_operation(S, "unrelate", from_instance, to_instance, rel_id, phrase)

\* MetaClass.default_value
model_default_value(S, type_name) ==
    LET of(uname) ==
            CASE uname = cBOOLEAN -> [value |-> PyBool(FALSE), issued |-> S.id_generator, exc |-> "none"]
              [] uname = cINTEGER -> [value |-> PyInt(0), issued |-> S.id_generator, exc |-> "none"]
              [] uname = cREAL -> [value |-> <<"real", 0>>, issued |-> S.id_generator, exc |-> "none"]
              [] uname = cSTRING -> [value |-> PyStr(""), issued |-> S.id_generator, exc |-> "none"]
              [] uname = cUNIQUE_ID -> [value |-> next_id(S.id_generator + 1),
                                        issued |-> S.id_generator + 1, exc |-> "none"]
              [] OTHER -> [value |-> None, issued |-> S.id_generator, exc |-> "ModelException"]
    IN  of(upper(type_name))

\* "set all attributes with an initial default value", from attribute k on
RECURSIVE model_new_defaults(_, _, _)
model_new_defaults(S, inst, k) ==
    LET mc == S.metaclasses[inst[1]]
        set(name, dv) ==
            IF dv.exc # "none" THEN [st |-> S, exc |-> dv.exc]
            ELSE model_new_defaults(model_setattr([S EXCEPT !.id_generator = dv.issued],
                                                  inst, name, dv.value), inst, k + 1)
    IN  IF k > Len(mc.attributes) THEN [st |-> S, exc |-> "none"]
        ELSE IF mc.attributes[k][1] \in mc.referential_attributes
        THEN model_new_defaults(model_setattr(S, inst, mc.attributes[k][1], None), inst, k + 1)
        ELSE set(mc.attributes[k][1], model_default_value(S, mc.attributes[k][2]))

\* "set all positional arguments", "set all named arguments": setattr for the
\* items from the k-th on
RECURSIVE model_new_assign(_, _, _, _)
model_new_assign(S, inst, items, k) ==
    IF k > Len(items) THEN S
    ELSE model_new_assign(model_setattr(S, inst, items[k][1], items[k][2]), inst, items, k + 1)

\* MetaClass.new(**kwargs), the object allocated being inst: [st, ret, exc]
model_MetaClass_new(S, c, kwargs) ==
    LET inst == <<c, Len(S.hashorder[c]) + 1>>
        defaulted(d) ==
            IF d.exc # "none" THEN [st |-> d.st, ret |-> NoInst, exc |-> d.exc]
            ELSE [st |-> [model_new_assign(d.st, inst, kwargs, 1)
                            EXCEPT !.storage[c] = Append(@, inst)],
                  ret |-> inst, exc |-> "none"]
    IN  defaulted(model_new_defaults([S EXCEPT !.cache[c] = EmptyDict,
                                               !.hashorder[c] = Append(@, inst)],
                                     inst, 1))

\* MetaClass.delete: [st, exc]
model_MetaClass_delete(S, inst) ==
    LET c == inst[1]
        table == S.storage[c]
        i == Min({j \in DOMAIN table : table[j] = inst})
    IN  IF inst \in Range(table)
        THEN [st |-> [S EXCEPT !.storage[c] = SubSeq(table, 1, i - 1) \o
                                               SubSeq(table, i + 1, Len(table)),
                               !.cache[c] = EmptyDict],
              exc |-> "none"]
        ELSE [st |-> S, exc |-> "ModelException"]

\* MetaClass.select_many with a dict for where-clause: [st, seq, exc]
model_select_many(S, c, where_clause) ==
    LET QuerySet(r) ==
            [st |-> r.st, seq |-> IF r.exc = "none" THEN OrderedSet(r.seq) ELSE <<>>,
             exc |-> r.exc]
    IN  QuerySet(model_query(S, c, where_clause))

\* MetaClass.select_one with a dict for where-clause, next(s, None):
\* [st, inst, exc]
model_select_one(S, c, where_clause) ==
    LET done(ch, r) ==
            [st |-> [S EXCEPT !.cache[c] = DictSet(ch, Range(where_clause), r.q)],
             inst |-> r.inst, exc |-> r.exc]
        first(ch, q) ==
            IF q.result # <<>> THEN [st |-> [S EXCEPT !.cache[c] = ch], inst |-> q.result[1], exc |-> "none"]
            ELSE IF q.evaluation # "paused" THEN [st |-> [S EXCEPT !.cache[c] = ch], inst |-> NoInst, exc |-> "none"]
            ELSE done(ch, model_mk_generator(S, S.storage[c], q))
        run(ch) == first(ch, ch[Range(where_clause)])
    IN  run(IF Range(where_clause) \in DOMAIN S.cache[c] THEN S.cache[c]
            ELSE DictSet(S.cache[c], Range(where_clause), NewQuery(where_clause)))

\* navigate_one(inst).nav(kind, rel_id, phrase)(): NavChain._nav, then
\* next(handle, None) on the generator of the cached Query. [st, inst, exc]
model_navigate_one(S, inst, kind, rel_id, phrase) ==
    LET kwargs(link) ==
            [i \in DOMAIN link.key_map |->
                <<link.key_map[i][2], model_getattr(S, inst, link.key_map[i][1])>>]
        query(link, kw) ==
            IF \E i \in DOMAIN kw : kw[i][2][1] = "exc"
            THEN [st |-> S, inst |-> NoInst, exc |-> "AttributeError"]
            ELSE model_select_one(S, link.to_metaclass, kw)
        follow(link) ==
            IF link = NoLink
            THEN [st |-> S, inst |-> NoInst, exc |-> "UnknownAssociationException"]
            ELSE query(link, kwargs(link))
    IN  follow(model_links_get(S.metaclasses[inst[1]].links,
                               <<upper(kind), norm_rel_id(rel_id), phrase>>))

\* sort_reflexive, "Figure out the phrase in the other direction"
model_find_other_phrase(S, metaclass, rel_id, phrase) ==
    LET items == S.metaclasses[metaclass].links
        link(i) == items[i][2]
        first(hits) == IF hits = {} THEN <<>> ELSE <<link(Min(hits)).phrase>>
    IN  first({i \in DOMAIN items : /\ link(i).to_metaclass = metaclass
                                    /\ link(i).rel_id = norm_rel_id(rel_id)
                                    /\ link(i).phrase # phrase})

\* sort_reflexive, first_instances = list(filter(first_filt, set_of_instances)):
\* [st, seq, exc]
RECURSIVE model_first_instances(_, _, _, _, _, _)
model_first_instances(S, set_of_instances, kind, rel_id, phrase, k) ==
    LET keep(r) ==
            IF r.exc # "none" THEN [st |-> r.st, seq |-> <<>>, exc |-> r.exc]
            ELSE LET rest(t) ==
                         [st |-> t.st, exc |-> t.exc,
                          seq |-> (IF r.inst = NoInst THEN <<set_of_instances[k]>> ELSE <<>>) \o t.seq]
                 IN  rest(model_first_instances(r.st, set_of_instances, kind, rel_id, phrase, k + 1))
    IN  IF k > Len(set_of_instances) THEN [st |-> S, seq |-> <<>>, exc |-> "none"]
        ELSE keep(model_navigate_one(S, set_of_instances[k], kind, rel_id, phrase))

\* sort_reflexive, the while loop of sequence_generator from one of the first
\* instances: [st, seq, exc]; a walk that comes back to an instance other
\* than the first never ends ("endless")
RECURSIVE model_sequence_from(_, _, _, _, _, _, _)
model_sequence_from(S, kind, rel_id, other_phrase, first, inst, seen) ==
    LET yield(rest) == [st |-> rest.st, seq |-> <<inst>> \o rest.seq, exc |-> rest.exc]
        step(r) ==
            IF r.exc # "none" THEN [st |-> r.st, seq |-> <<inst>>, exc |-> r.exc]
            ELSE IF r.inst = first THEN [st |-> r.st, seq |-> <<inst>>, exc |-> "none"]
            ELSE yield(model_sequence_from(r.st, kind, rel_id, other_phrase, first, r.inst,
                                           seen \cup {inst}))
    IN  IF inst = NoInst THEN [st |-> S, seq |-> <<>>, exc |-> "none"]
        ELSE IF inst \in seen THEN [st |-> S, seq |-> <<>>, exc |-> "endless"]
        ELSE step(model_navigate_one(S, inst, kind, rel_id, other_phrase))

\* sort_reflexive, sequence_generator over the first instances from the k-th on
RECURSIVE model_sequence_generator(_, _, _, _, _, _)
model_sequence_generator(S, kind, rel_id, other_phrase, firsts, k) ==
    LET then(r) ==
            IF r.exc # "none" THEN r
            ELSE LET more(rest) == [st |-> rest.st, seq |-> r.seq \o rest.seq, exc |-> rest.exc]
                 IN  more(model_sequence_generator(r.st, kind, rel_id, other_phrase, firsts, k + 1))
    IN  IF k > Len(firsts) THEN [st |-> S, seq |-> <<>>, exc |-> "none"]
        ELSE then(model_sequence_from(S, kind, rel_id, other_phrase, firsts[k], firsts[k], {}))

\* sort_reflexive(set_of_instances, rel_id, phrase), the QuerySet consumed:
\* [st, seq, exc]
model_sort_reflexive(S, set_of_instances, rel_id, phrase) ==
    LET metaclass == set_of_instances[1][1]
        kind == S.metaclasses[metaclass].kind
        QuerySet(r) ==
            [st |-> r.st, seq |-> IF r.exc = "none" THEN OrderedSet(r.seq) ELSE <<>>, exc |-> r.exc]
        generate(other_phrase, f) ==
            IF f.exc # "none" THEN [st |-> f.st, seq |-> <<>>, exc |-> f.exc]
            ELSE QuerySet(model_sequence_generator(f.st, kind, rel_id, other_phrase,
                     IF f.seq = <<>> THEN <<set_of_instances[1]>> ELSE f.seq, 1))
        found(others) ==
            IF others = <<>> THEN [st |-> S, seq |-> <<>>, exc |-> "UnknownAssociationException"]
            ELSE generate(others[1],
                          model_first_instances(S, set_of_instances, kind, rel_id, phrase, 1))
    IN  IF set_of_instances = <<>> THEN [st |-> S, seq |-> <<>>, exc |-> "none"]
        ELSE found(model_find_other_phrase(S, metaclass, rel_id, phrase))

\* ------------------------------------------------------- the schema
\* MetaClass.__init__ followed by append_attribute for every attribute, as
\* MetaModel.define_class does
MetaClass(kind, attributes) ==
    [kind |-> kind, attributes |-> attributes, referential_attributes |-> {},
     identifying_attributes |-> {}, links |-> <<>>, clazz |-> EmptyDict]

\* MetaModel() followed by define_class('Dog', ...) and define_class('Per', ...)
Empty ==
    [metaclasses |-> <<MetaClass(kDog, <<<<aName, tSTRING>>, <<aOwner, tUNIQUE_ID>>>>),
                       MetaClass(kPer, <<<<aId, tUNIQUE_ID>>, <<aPrev, tUNIQUE_ID>>>>)>>,
     associations |-> <<>>, links |-> <<>>,
     storage |-> <<<<>>, <<>>>>,
     idict |-> [i \in AllInst |-> EmptyDict],
     cache |-> <<EmptyDict, EmptyDict>>,
     id_generator |-> 0,
     hashorder |-> <<<<>>, <<>>>>]

\* R1: Dog (owner_id) -> Per (Id), the Dog side one or many, the Per side one;
\* the kinds are written in upper case, as a schema file may
DefineR1(S, source_many) ==
    define_association(S, <<"int", 1>>, upper(kDog), <<aOwner>>, source_many, TRUE,
                       NoPhrase, upper(kPer), <<aId>>, FALSE, TRUE, NoPhrase).st

\* R2: Per (prev_id) 'next' -> Per (Id) 'prev', reflexive, 1C to 1C
DefineR2(S) ==
    define_association(S, <<"str", <<"R", "2">>>>, kPer, <<aPrev>>, FALSE, TRUE,
                       pNext, kPer, <<aId>>, FALSE, TRUE, pPrev).st

\* the schemas: one association, defined and formalized
Schemas ==
    {Association_formalize(DefineR1(Empty, FALSE), 1),
     Association_formalize(DefineR1(Empty, TRUE), 1),
     Association_formalize(DefineR2(Empty), 1)}

\* MaxInst instances of metaclass c from the k-th on, the n-th one created by
\* new(**kwargs(n)) and placed by its hash at hpos[n]
RECURSIVE Populate(_, _, _, _, _)
Populate(S, c, kwargs, hpos, k) ==
    IF k > MaxInst THEN S
    ELSE Populate(MetaClass_new(S, c, <<>>, kwargs[k], hpos[k]).st, c, kwargs, hpos, k + 1)

DogArgs == [k \in 1..MaxInst |-> <<<<aName, PyStr("Rex")>>>>]
PerArgs == [k \in 1..MaxInst |-> <<<<aId, PyInt(k)>>>>]

\* the hashes of the objects order them as they were allocated
AllocationOrder == [k \in 1..MaxInst |-> k]

Assign(S) ==
    /\ metaclasses = S.metaclasses
    /\ associations = S.associations
    /\ links = S.links
    /\ storage = S.storage
    /\ idict = S.idict
    /\ cache = S.cache
    /\ id_generator = S.id_generator
    /\ hashorder = S.hashorder
    /\ twin = NoTwin
    /\ generators = <<>>

\* the MetaModel becomes S
Changes(S) ==
    /\ metaclasses' = S.metaclasses
    /\ associations' = S.associations
    /\ links' = S.links
    /\ storage' = S.storage
    /\ idict' = S.idict
    /\ cache' = S.cache
    /\ id_generator' = S.id_generator
    /\ hashorder' = S.hashorder
    /\ engine' = engine

Becomes(S) == Changes(S) /\ twin' = twin /\ generators' = generators

NoCall == [op |-> "none", args |-> <<>>, ret |-> None, exc |-> "none"]

\* One of the schemas, and MaxInst instances of each class, unrelated.
Init ==
    \E schema \in Schemas :
        /\ Assign(Populate(Populate(schema, DOG, DogArgs, AllocationOrder, 1),
                           PER, PerArgs, AllocationOrder, 1))
        /\ engine = "meta"
        /\ last = NoCall

\* ------------------------------------------------------- the calls
\* the (rel_id, phrase) pairs that calls are made with: R1, both phrases of
\* R2, and one that no schema defines
Across == {<<(<<"int", 1>>), NoPhrase>>, <<(<<"int", 2>>), pPrev>>,
           <<(<<"int", 2>>), pNext>>, <<(<<"str", <<"R", "1">>>>), pNext>>}
Created == {i \in AllInst : \E c \in DOMAIN hashorder : i \in Range(hashorder[c])}

\* The engine is single-threaded: a call is made when the caller holds no
\* result (last = NoCall), and Return is the caller taking the result.
Called(op, args, r) ==
    /\ last = NoCall
    /\ Becomes(r.st)
    /\ last' = [op |-> op, args |-> args, ret |-> PyBool(r.ret), exc |-> r.exc]

Relate ==
    \E from_instance \in Created, to_instance \in Created, across \in Across :
        engine = "meta" /\
        Called("relate", <<from_instance, to_instance, across[1], across[2]>>,
               relate(St, from_instance, to_instance, across[1], across[2]))

Unrelate ==
    \E from_instance \in Created, to_instance \in Created, across \in Across :
        engine = "meta" /\
        Called("unrelate", <<from_instance, to_instance, across[1], across[2]>>,
               unrelate(St, from_instance, to_instance, across[1], across[2]))

Return ==
    /\ last # NoCall
    /\ last' = NoCall
    /\ UNCHANGED <<metaclasses, associations, links, storage, idict, cache,
                   id_generator, hashorder, engine, twin, generators>>

Next == Relate \/ Unrelate \/ Return

Spec == Init /\ [][Next]_vars

\* ------------------------------------- instances before associations
\* a call that returned ret or raised exc, leaving the state st
Did(op, args, st, ret, exc) ==
    /\ last = NoCall
    /\ Becomes(st)
    /\ last' = [op |-> op, args |-> args, ret |-> ret, exc |-> exc]

\* the named arguments that new is called with: a Dog with or without an
\* owner_id, a Per with an Id
NewArgs(c) ==
    IF c = DOG THEN {<<>>, <<<<aOwner, PyInt(1)>>>>}
    ELSE {<<<<aId, PyInt(1)>>>>, <<<<aId, PyInt(2)>>>>}

\* metaclass.new(**kwargs)
New ==
    \E c \in {DOG, PER} : \E kwargs \in NewArgs(c) :
        LET returned(r) == Did("new", <<c, kwargs>>, r.st, <<"inst", r.ret>>, r.exc)
        IN  /\ engine = "meta"
            /\ Len(hashorder[c]) < MaxInst
            /\ returned(MetaClass_new(St, c, <<>>, kwargs, Len(hashorder[c]) + 1))

\* define_association of R1, the Dog side one or many
DefineAssociation ==
    \E source_many \in BOOLEAN :
        /\ engine = "meta"
        /\ associations = <<>>
        /\ Did("define_association", <<source_many>>, DefineR1(St, source_many),
               None, "none")

\* Association.batch_relate of the association defined
BatchRelate ==
    LET returned(r) == Did("batch_relate", <<1>>, r.st, None, r.exc)
    IN  /\ engine = "meta"
        /\ associations # <<>>
        /\ returned(Association_batch_relate(St, 1))

\* Association.formalize of the association defined
Formalize ==
    /\ engine = "meta"
    /\ associations # <<>>
    /\ associations[1].source_link.key_map = <<>>
    /\ Did("formalize", <<1>>, Association_formalize(St, 1), None, "none")

\* A metamodel with its two classes, no association, no instance.
InitEmpty ==
    /\ Assign(Empty)
    /\ engine = "meta"
    /\ last = NoCall

\* relate(dog, per, 1) and unrelate(dog, per, 1)
RelateR1 ==
    \E from_instance \in Created \cap InstOf(DOG), to_instance \in Created \cap InstOf(PER) :
        engine = "meta" /\
        Called("relate", <<from_instance, to_instance, <<"int", 1>>, NoPhrase>>,
               relate(St, from_instance, to_instance, <<"int", 1>>, NoPhrase))

UnrelateR1 ==
    \E from_instance \in Created \cap InstOf(DOG), to_instance \in Created \cap InstOf(PER) :
        engine = "meta" /\
        Called("unrelate", <<from_instance, to_instance, <<"int", 1>>, NoPhrase>>,
               unrelate(St, from_instance, to_instance, <<"int", 1>>, NoPhrase))

NextDef ==
    New \/ DefineAssociation \/ BatchRelate \/ Formalize \/ RelateR1 \/ UnrelateR1 \/ Return

\* instances and the association in any order
SpecDef == InitEmpty /\ [][NextDef]_vars

\* ------------------------------------------- a population that changes
\* Dog(): a second Dog
NewDog ==
    LET returned(r) == Did("new", <<DOG, <<>>>>, r.st, <<"inst", r.ret>>, r.exc)
    IN  /\ engine = "meta"
        /\ Len(hashorder[DOG]) < MaxInst
        /\ returned(MetaClass_new(St, DOG, <<>>, <<>>, Len(hashorder[DOG]) + 1))

\* metaclass.delete(instance) of a Dog
Delete ==
    \E instance \in Created \cap InstOf(DOG) :
        LET returned(r) == Did("delete", <<instance>>, r.st, None, r.exc)
        IN  engine = "meta" /\ returned(MetaClass_delete(St, instance))

\* the attribute writes: a name in upper case, and a referential attribute
Writes == {<<upper(aName), PyStr("Spot")>>, <<aOwner, PyInt(2)>>}

\* setattr(instance, name, value) on a Dog
SetAttr ==
    \E instance \in Created \cap InstOf(DOG) : \E write \in Writes :
        /\ engine = "meta"
        /\ Did("setattr", <<instance, write[1], write[2]>>,
               setattr(St, instance, write[1], write[2]), None, "none")

\* the dicts that select_many and select_one are called with
Maps == {<<<<aOwner, PyInt(1)>>>>, <<<<aName, PyStr("Rex")>>>>}

\* Dog.select_many(where_clause)
SelectMany ==
    \E where_clause \in Maps :
        LET returned(r) == Did("select_many", <<DOG, where_clause>>, r.st, <<"seq", r.seq>>, r.exc)
        IN  engine = "meta" /\ returned(select_many(St, DOG, where_clause))

\* Dog.select_one(where_clause): the query is left partially evaluated
SelectOne ==
    \E where_clause \in Maps :
        LET returned(r) == Did("select_one", <<DOG, where_clause>>, r.st, <<"inst", r.inst>>, r.exc)
        IN  engine = "meta" /\ returned(select_one(St, DOG, where_clause))

\* R1 formalized, many Dogs to one Per; one Dog and one Per
InitPop ==
    /\ Assign(MetaClass_new(MetaClass_new(Association_formalize(DefineR1(Empty, TRUE), 1),
                                          DOG, <<>>, DogArgs[1], 1).st,
                            PER, <<>>, PerArgs[1], 1).st)
    /\ engine = "meta"
    /\ last = NoCall

NextPop ==
    NewDog \/ Delete \/ SetAttr \/ SelectMany \/ SelectOne \/ RelateR1 \/ UnrelateR1 \/ Return

SpecPop == InitPop /\ [][NextPop]_vars

\* ------------------------------------------- the same, with xtuml.model
\* MetaModel() followed by define_class(dog, ...) and define_class(per, ...)
model_Empty(dog, per) ==
    [metaclasses |-> <<MetaClass(dog, <<<<aName, tSTRING>>, <<aOwner, tUNIQUE_ID>>>>),
                       MetaClass(per, <<<<aId, tUNIQUE_ID>>, <<aPrev, tUNIQUE_ID>>>>)>>,
     associations |-> <<>>, links |-> <<>>,
     storage |-> <<<<>>, <<>>>>,
     idict |-> [i \in AllInst |-> EmptyDict],
     cache |-> <<EmptyDict, EmptyDict>>,
     id_generator |-> 0,
     hashorder |-> <<<<>>, <<>>>>]

\* R1: Dog (owner_id) -> Per (Id)
model_DefineR1(S) ==
    model_define_association(S, <<"int", 1>>, upper(kDog), <<aOwner>>, TRUE, TRUE,
                             NoPhrase, upper(kPer), <<aId>>, FALSE, TRUE, NoPhrase).st

\* R2: Per (prev_id) 'next' -> Per (Id) 'prev', reflexive
model_DefineR2(S) ==
    model_define_association(S, <<"str", <<"R", "2">>>>, kPer, <<aPrev>>, FALSE, TRUE,
                             pNext, kPer, <<aId>>, FALSE, TRUE, pPrev).st

\* the schemas: one association; the classes named in mixed case, and for R2
\* also in upper case
model_Schemas ==
    {model_DefineR1(model_Empty(kDog, kPer)),
     model_DefineR2(model_Empty(kDog, kPer)),
     model_DefineR2(model_Empty(upper(kDog), upper(kPer)))}

RECURSIVE model_Populate(_, _, _, _)
model_Populate(S, c, kwargs, k) ==
    IF k > MaxInst THEN S
    ELSE model_Populate(model_MetaClass_new(S, c, kwargs[k]).st, c, kwargs, k + 1)

\* the Ids of the Per instances: 1, 2, ... or 0, 1, ... (the first one null)
model_PerArgs == {[k \in 1..MaxInst |-> <<<<aId, PyInt(k - first)>>>>] : first \in {0, 1}}

\* One of the schemas, and MaxInst instances of each class, unrelated.
model_Init ==
    \E schema \in model_Schemas, per_args \in model_PerArgs :
        /\ Assign(model_Populate(model_Populate(schema, DOG, DogArgs, 1), PER, per_args, 1))
        /\ engine = "model"
        /\ last = NoCall

model_Relate ==
    \E from_instance \in Created, to_instance \in Created, across \in Across :
        engine = "model" /\
        Called("relate", <<from_instance, to_instance, across[1], across[2]>>,
               model_relate(St, from_instance, to_instance, across[1], across[2]))

model_Unrelate ==
    \E from_instance \in Created, to_instance \in Created, across \in Across :
        engine = "model" /\
        Called("unrelate", <<from_instance, to_instance, across[1], across[2]>>,
               model_unrelate(St, from_instance, to_instance, across[1], across[2]))

model_Next == model_Relate \/ model_Unrelate \/ Return

SpecKC == model_Init /\ [][model_Next]_vars

\* either engine: the program imports xtuml.meta or xtuml.model
SpecBoth ==
    (Init \/ model_Init) /\
    [][Relate \/ Unrelate \/ model_Relate \/ model_Unrelate \/ Return]_vars

\* ------------------------------ a population that changes, xtuml.model
model_NewDog ==
    LET returned(r) == Did("new", <<DOG, <<>>>>, r.st, <<"inst", r.ret>>, r.exc)
    IN  /\ engine = "model"
        /\ Len(hashorder[DOG]) < MaxInst
        /\ returned(model_MetaClass_new(St, DOG, <<>>))

model_Delete ==
    \E instance \in Created \cap InstOf(DOG) :
        LET returned(r) == Did("delete", <<instance>>, r.st, None, r.exc)
        IN  engine = "model" /\ returned(model_MetaClass_delete(St, instance))

model_SetAttr ==
    \E instance \in Created \cap InstOf(DOG) : \E write \in Writes :
        /\ engine = "model"
        /\ Did("setattr", <<instance, write[1], write[2]>>,
               model_setattr(St, instance, write[1], write[2]), None, "none")

model_SelectMany ==
    \E where_clause \in Maps :
        LET returned(r) == Did("select_many", <<DOG, where_clause>>, r.st, <<"seq", r.seq>>, r.exc)
        IN  engine = "model" /\ returned(model_select_many(St, DOG, where_clause))

model_SelectOne ==
    \E where_clause \in Maps :
        LET returned(r) == Did("select_one", <<DOG, where_clause>>, r.st, <<"inst", r.inst>>, r.exc)
        IN  engine = "model" /\ returned(model_select_one(St, DOG, where_clause))

model_RelateR1 ==
    \E from_instance \in Created \cap InstOf(DOG), to_instance \in Created \cap InstOf(PER) :
        engine = "model" /\
        Called("relate", <<from_instance, to_instance, <<"int", 1>>, NoPhrase>>,
               model_relate(St, from_instance, to_instance, <<"int", 1>>, NoPhrase))

model_UnrelateR1 ==
    \E from_instance \in Created \cap InstOf(DOG), to_instance \in Created \cap InstOf(PER) :
        engine = "model" /\
        Called("unrelate", <<from_instance, to_instance, <<"int", 1>>, NoPhrase>>,
               model_unrelate(St, from_instance, to_instance, <<"int", 1>>, NoPhrase))

\* R1, many Dogs to one Per; one Dog and one Per
model_InitPop ==
    /\ Assign(model_MetaClass_new(model_MetaClass_new(model_DefineR1(model_Empty(kDog, kPer)),
                                                      DOG, DogArgs[1]).st,
                                  PER, PerArgs[1]).st)
    /\ engine = "model"
    /\ last = NoCall

model_NextPop ==
    model_NewDog \/ model_Delete \/ model_SetAttr \/ model_SelectMany \/ model_SelectOne \/ model_RelateR1 \/ model_UnrelateR1 \/ Return

\* the population under either engine
SpecPopBoth == (InitPop \/ model_InitPop) /\ [][NextPop \/ model_NextPop]_vars

\* ------------------------------------------------------ what a call was
\* the call that the caller holds the result of
CallIs(op) == last.op = op
Succeeded == last.exc = "none" /\ last.ret = PyBool(TRUE)
from_arg == last.args[1]
to_arg == last.args[2]
rel_arg == last.args[3]
phrase_arg == last.args[4]

\* the Link (association, side) through which relate(a, c, rel_id, phrase)
\* gives a its neighbor c in state S; <<0, "none">> if the call finds no link
LinkFrom(S, a, c, rel_id, phrase) ==
    LET side(f) == IF f.exc # "none" THEN <<0, "none">>
                   ELSE IF f.inst1 = a THEN <<f.ass, "source">>
                   ELSE <<f.ass, "target">>
    IN  side(_find_link(S, a, c, rel_id, phrase))

\* ------------------------------------------------------------------ C1
\* C1: in every state that relate and unrelate calls reach, calls that raise
\* included, for every association and every pair of instances (x, y): y is
\* in the source Link's neighbor set of x iff x is in the target Link's
\* neighbor set of y.
C1_BidirectionalConsistency ==
    \A a \in DOMAIN links : \A x \in AllInst, y \in AllInst :
        (y \in links[a].source[x]) <=> (x \in links[a].target[y])

\* ------------------------------------------------------------------ C2
\* a has, through the non-many Link that relate(a, c, rel_id, phrase) would
\* give it c through, a neighbor other than c
HasOtherNeighbor(S, a, c, rel_id, phrase) ==
    LET through(ref) ==
            /\ ref[1] # 0
            /\ ~LinkOf(S, ref).many
            /\ S.links[ref[1]][ref[2]][a] \ {c} # {}
    IN  through(LinkFrom(S, a, c, rel_id, phrase))

\* C2: if a already has a neighbor b through a Link that is not many, relate
\* of a to a different instance c across the same relation id and phrase
\* raises RelateException, whichever side of the association the Link is.
C2_RelateRejectsSecondNeighbor ==
    [][(last'.op = "relate" /\ last = NoCall
        /\ HasOtherNeighbor(St, last'.args[1], last'.args[2],
                            last'.args[3], last'.args[4]))
       => last'.exc = "RelateException"]_vars

\* a relate that was rejected for an instance that has another neighbor
\* through its non-many target Link (the dependent side)
C2_Witness ==
    /\ CallIs("relate")
    /\ last.exc = "RelateException"
    /\ LinkFrom(St, from_arg, to_arg, rel_arg, phrase_arg)[2] = "target"
    /\ HasOtherNeighbor(St, from_arg, to_arg, rel_arg, phrase_arg)

\* ------------------------------------------------------------------ C4
\* the phrase opposing phrase in association a
Opposing(S, a, phrase) ==
    IF S.associations[a].target_link.phrase = phrase
    THEN S.associations[a].source_link.phrase
    ELSE S.associations[a].target_link.phrase

KindOf(S, inst) == S.metaclasses[inst[1]].kind

\* navigating from x to the kind of y across (rel_id, phrase) yields y
Reaches(S, x, y, rel_id, phrase) ==
    y \in navigate_many(S, x, KindOf(S, y), rel_id, phrase).set

\* the association that the call the caller holds the result of resolved to
ass_arg == _find_link(St, from_arg, to_arg, rel_arg, phrase_arg).ass

\* C4 as stated: after a successful relate(a, b, R, p), navigating from a
\* across (R, p) yields b and navigating from b across (R, q) yields a, q the
\* opposing phrase.
C4_AsStated ==
    (CallIs("relate") /\ Succeeded) =>
        /\ Reaches(St, from_arg, to_arg, rel_arg, phrase_arg)
        /\ Reaches(St, to_arg, from_arg, rel_arg,
                   Opposing(St, ass_arg, phrase_arg))

\* C4: after a successful relate(a, b, R, p), navigating from a to the kind
\* of b across (R, q) yields a set containing b, and navigating from b to the
\* kind of a across (R, p) yields a set containing a, where q is the phrase
\* opposing p (p = q = '' for a non-reflexive association).
C4_Bidirectionality ==
    (CallIs("relate") /\ Succeeded) =>
        /\ Reaches(St, from_arg, to_arg, rel_arg,
                   Opposing(St, ass_arg, phrase_arg))
        /\ Reaches(St, to_arg, from_arg, rel_arg, phrase_arg)

\* a successful relate of two distinct instances across the reflexive
\* association, by one of its two phrases
C4_Witness ==
    /\ CallIs("relate") /\ Succeeded
    /\ from_arg # to_arg
    /\ from_arg[1] = to_arg[1]
    /\ Opposing(St, ass_arg, phrase_arg) # phrase_arg

\* ------------------------------------------------------------------ C5
\* what xtuml.model shows of instance x: the value each attribute reads, and
\* the instances each navigation from it yields
model_Observed(S, x) ==
    LET attrs == S.metaclasses[x[1]].attributes
        items == S.metaclasses[x[1]].links
    IN  [attributes |-> [i \in DOMAIN attrs |-> model_getattr(S, x, attrs[i][1])],
         navigations |-> [i \in DOMAIN items |->
                            Range(model_Link_navigate(S, items[i][2], x).seq)]]

\* a and b are related across (rel_id, phrase) under xtuml.model: the
\* referential attributes of the one that relate would copy to hold the
\* values of the identifying attributes of the other, none of them null
model_Related(S, a, b, rel_id, phrase) ==
    LET held(f) ==
            /\ f.exc = "none"
            /\ \A i \in DOMAIN f.link.key_map :
                   /\ model_getattr(S, f.from, f.link.key_map[i][1])[1] # "exc"
                   /\ ~model_is_null(S, f.from, f.link.key_map[i][1])
                   /\ model_getattr(S, f.from, f.link.key_map[i][1]) =
                      model_getattr(S, f.to, f.link.key_map[i][2])
    IN  held(model__find_link(S, a, b, rel_id, phrase))

\* C5: for any a, b not related across (R, p) for which relate(a, b, R, p)
\* succeeds, relate(a, b, R, p); unrelate(a, b, R, p) succeeds and leaves
\* every attribute of a and of b reading the same value as before the relate,
\* and every navigation from a or from b yielding the same instances.
\* Stated of every relate step: the unrelate is applied to the state that
\* the relate left.
C5_RoundTrip ==
    [][(engine = "model" /\ last = NoCall /\ last'.op = "relate"
        /\ last'.exc = "none" /\ last'.ret = PyBool(TRUE)
        /\ ~model_Related(St, last'.args[1], last'.args[2],
                          last'.args[3], last'.args[4]))
       => LET undone(u) ==
                  /\ u.exc = "none"
                  /\ model_Observed(u.st, last'.args[1]) = model_Observed(St, last'.args[1])
                  /\ model_Observed(u.st, last'.args[2]) = model_Observed(St, last'.args[2])
          IN  undone(model_unrelate(St', last'.args[1], last'.args[2],
                                    last'.args[3], last'.args[4]))]_vars

\* ------------------------------------------------------------------ C6
\* C6: for any a, b already related across (R, p), a second
\* relate(a, b, R, p) returns true, raises nothing, and leaves every Link
\* neighbor set and every attribute unchanged.
C6_SecondRelate ==
    [][(engine = "model" /\ last = NoCall /\ last'.op = "relate"
        /\ model_Related(St, last'.args[1], last'.args[2],
                         last'.args[3], last'.args[4]))
       => (last'.ret = PyBool(TRUE) /\ last'.exc = "none"
           /\ UNCHANGED <<links, idict>>)]_vars

\* ------------------------------------------------------------------ C7
\* the dependent instance d, the independent instance i and the pairs
\* (referential attribute of d, identifying attribute of i) of the call that
\* the caller holds the result of
Resolved ==
    IF engine = "meta"
    THEN LET of(f) ==
                 IF f.exc # "none" THEN [d |-> NoInst, i |-> NoInst, pairs |-> <<>>]
                 ELSE [d |-> f.inst2, i |-> f.inst1,
                       pairs |-> zip(associations[f.ass].source_keys,
                                     associations[f.ass].target_keys)]
         IN  of(_find_link(St, from_arg, to_arg, rel_arg, phrase_arg))
    ELSE LET of(f) ==
                 IF f.exc # "none" THEN [d |-> NoInst, i |-> NoInst, pairs |-> <<>>]
                 ELSE [d |-> f.from, i |-> f.to, pairs |-> f.link.key_map]
         IN  of(model__find_link(St, from_arg, to_arg, rel_arg, phrase_arg))

\* what attribute name of instance x reads, and whether it is null
Reads(x, name) ==
    IF engine = "meta" THEN getattr(St, x, name) ELSE model_getattr(St, x, name)

ReadsNull(x, name) ==
    IF engine = "meta" THEN _is_null(St, x, name) ELSE model_is_null(St, x, name)

C8_UnrelateUnrelated ==
    [][(engine = "model" /\ last = NoCall /\ last'.op = "unrelate"
        /\ model__find_link(St, last'.args[1], last'.args[2],
                            last'.args[3], last'.args[4]).exc = "none"
        /\ ~model_Related(St, last'.args[1], last'.args[2],
                          last'.args[3], last'.args[4]))
       => /\ last'.exc # "none"
          /\ \A c \in Created :
                 model_Related(St, last'.args[1], c, last'.args[3], last'.args[4])
                 => model_Related(St', last'.args[1], c, last'.args[3], last'.args[4])]_vars

\* ------------------------------------------------------------------ C3
\* C3: in every state reachable by association definition with its
\* batch-relate pass, new (with or without referential values), relate and
\* unrelate, every instance has at most one neighbor through every Link whose
\* many flag is false.
C3_Cardinality ==
    \A a \in DOMAIN associations : \A side \in Sides :
        ~LinkOf(St, <<a, side>>).many =>
            \A x \in AllInst : Cardinality(links[a][side][x]) <= 1

\* ------------------------------------------------------------------ C9
\* instance x matches the dict: every attribute named reads the value given
\* and is not null
Matches(S, x, where_clause) ==
    \A i \in DOMAIN where_clause :
        /\ getattr(S, x, where_clause[i][1]) = where_clause[i][2]
        /\ ~_is_null(S, x, where_clause[i][1])

\* C9: after any sequence of new, delete, attribute writes, relate and
\* unrelate, select_many(K, map) returns exactly the instances of K's pool
\* whose current attribute values match the map, the value of a referential
\* attribute being the one that follows the link.
C9_SelectManyExact ==
    (CallIs("select_many") /\ last.exc = "none") =>
        Range(last.ret[2]) =
            {x \in Range(storage[last.args[1]]) : Matches(St, x, last.args[2])}

\* ----------------------------------------------------------------- C10
\* C10: for any instance x of class K whose attribute attr holds a non-null
\* value v, after attr of x is assigned a different value w, in any
\* letter-case spelling of the name, select_many(K, {attr: v}) omits x, even
\* if the same query was executed and cached before the write.
C10_WriteOmits ==
    [][(last = NoCall /\ last'.op = "setattr"
        /\ ~_is_null(St, last'.args[1], last'.args[2])
        /\ getattr(St, last'.args[1], last'.args[2]) # last'.args[3])
       => last'.args[1] \notin
              Range(select_many(St', last'.args[1][1],
                                <<<<last'.args[2],
                                    getattr(St, last'.args[1], last'.args[2])>>>>).seq)]_vars
\* ----------------------------------------------------------------- C11
\* the engine's select_many, select_one and where-clause test
any_select_many(S, c, where_clause) ==
    IF engine = "meta" THEN select_many(S, c, where_clause)
    ELSE model_select_many(S, c, where_clause)

any_select_one(S, c, where_clause) ==
    IF engine = "meta" THEN select_one(S, c, where_clause)
    ELSE model_select_one(S, c, where_clause)

AnyMatches(S, x, where_clause) ==
    IF engine = "meta" THEN Query_match(S, x, where_clause) = "match"
    ELSE model_Query_match(S, x, where_clause) = "match"

\* the instances of the pool of class c that match, in pool order
Matching(S, c, where_clause) ==
    SelectSeqBy(S.storage[c], {x \in Range(S.storage[c]) : AnyMatches(S, x, where_clause)})

\* the cached Query of class c for the dict
CachedQuery(S, c, where_clause) == S.cache[c][Range(where_clause)]

\* a select_one step that created the Query it consumed
CreatedBySelectOne ==
    /\ last = NoCall
    /\ last'.op = "select_one"
    /\ last'.exc = "none"
    /\ Range(last'.args[2]) \notin DOMAIN cache[last'.args[1]]

\* what executing the Query again, in the state S that select_one left, gives
ExecutedAgain(S, c, where_clause, first) ==
    LET all(r) ==
            /\ r.exc = "none"
            /\ r.seq = Matching(S, c, where_clause)
            /\ \A i, j \in DOMAIN r.seq : r.seq[i] = r.seq[j] => i = j
            /\ first = (IF r.seq = <<>> THEN NoInst ELSE r.seq[1])
            /\ CachedQuery(S, c, where_clause).pos <= CachedQuery(r.st, c, where_clause).pos
            /\ CachedQuery(r.st, c, where_clause).pos = Len(S.storage[c])
        once_more(r) ==
            /\ r.exc = "none"
            /\ r.inst = first
            /\ all(any_select_many(r.st, c, where_clause))
    IN  /\ all(any_select_many(S, c, where_clause))
        /\ once_more(any_select_one(S, c, where_clause))

aTag == <<"T","a","g">>
aAge == <<"A","g","e">>
aKg == <<"K","g">>
aGood == <<"G","o","o","d">>
tINTEGER == <<"i","n","t","e","g","e","r">>
tREAL == <<"R","e","a","l">>
tBOOLEAN == <<"b","o","o","l","e","a","n">>
PyReal(n) == <<"real", n>>

\* MetaModel() followed by define_class('Dog', ...) with the five types
EmptyTyped ==
    [Empty EXCEPT !.metaclasses[DOG] =
        MetaClass(kDog, <<<<aName, tSTRING>>, <<aTag, tUNIQUE_ID>>, <<aAge, tINTEGER>>,
                          <<aKg, tREAL>>, <<aGood, tBOOLEAN>>>>)]

\* the named arguments Dog is created with
TypedArgs ==
    {<<>>, <<<<aName, PyStr("Rex")>>>>, <<<<aTag, PyInt(0)>>>>, <<<<aTag, None>>>>,
     <<<<aAge, PyInt(3)>>, <<aGood, PyBool(TRUE)>>>>, <<<<aKg, None>>>>}

\* the dicts the Dogs are selected with
TypedMaps ==
    {<<<<aName, PyStr("")>>>>, <<<<aName, PyStr("Rex")>>>>, <<<<aTag, PyInt(0)>>>>,
     <<<<aTag, None>>>>, <<<<aKg, PyReal(0)>>>>,
     <<<<upper(aAge), PyInt(0)>>, <<aGood, PyBool(FALSE)>>>>}

NewTyped ==
    \E kwargs \in TypedArgs :
        LET returned(r) == Did("new", <<DOG, kwargs>>, r.st, <<"inst", r.ret>>, r.exc)
        IN  /\ engine = "meta"
            /\ Len(hashorder[DOG]) < MaxInst
            /\ returned(MetaClass_new(St, DOG, <<>>, kwargs, Len(hashorder[DOG]) + 1))

SelectManyTyped ==
    \E where_clause \in TypedMaps :
        LET returned(r) == Did("select_many", <<DOG, where_clause>>, r.st, <<"seq", r.seq>>, r.exc)
        IN  engine = "meta" /\ returned(select_many(St, DOG, where_clause))

SelectOneTyped ==
    \E where_clause \in TypedMaps :
        LET returned(r) == Did("select_one", <<DOG, where_clause>>, r.st, <<"inst", r.inst>>, r.exc)
        IN  engine = "meta" /\ returned(select_one(St, DOG, where_clause))

InitTyped ==
    /\ Assign(EmptyTyped)
    /\ engine = "meta"
    /\ last = NoCall

NextTyped == NewTyped \/ SelectManyTyped \/ SelectOneTyped \/ Return

\* Dogs with attributes of every type, created and selected
SpecTyped == InitTyped /\ [][NextTyped]_vars

\* the type of the attribute that a name denotes, in upper case
TypeOf(S, c, name) ==
    LET attrs == S.metaclasses[c].attributes
    IN  upper(attrs[Min({i \in DOMAIN attrs : upper(attrs[i][1]) = upper(name)})][2])

\* null as the types define it: absent, the empty STRING, the UNIQUE_ID 0
NullValue(type_name, value) ==
    \/ value = None
    \/ type_name = cSTRING /\ value = PyStr("")
    \/ type_name = cUNIQUE_ID /\ value = PyInt(0)

\* every attribute named equals the value mapped and is not null
EqualAndNotNull(S, x, where_clause) ==
    \A i \in DOMAIN where_clause :
        /\ ~PyNe(getattr(S, x, where_clause[i][1]), where_clause[i][2])
        /\ ~NullValue(TypeOf(S, x[1], where_clause[i][1]), getattr(S, x, where_clause[i][1]))

Selected(S, c, where_clause) ==
    SelectSeqBy(S.storage[c], {x \in Range(S.storage[c]) : EqualAndNotNull(S, x, where_clause)})

\* C12: select_many(K, map) returns exactly the pool instances whose named
\* attributes all equal the mapped values and are not null, and
\* select_one(K, map) the first of them or None; the empty STRING, the
\* UNIQUE_ID 0 and None never match, INTEGER 0, REAL 0.0 and BOOLEAN False do.
C12_SelectByMap ==
    /\ (CallIs("select_many") /\ last.exc = "none") =>
           last.ret[2] = Selected(St, last.args[1], last.args[2])
    /\ (CallIs("select_one") /\ last.exc = "none") =>
           last.ret[2] = (IF Selected(St, last.args[1], last.args[2]) = <<>> THEN NoInst
                          ELSE Selected(St, last.args[1], last.args[2])[1])

\* select_many on INTEGER 0 and BOOLEAN False returned two Dogs, one of them
\* with an empty Name or a null Tag
C12_Witness ==
    /\ CallIs("select_many") /\ last.exc = "none"
    /\ last.args[2] = <<<<upper(aAge), PyInt(0)>>, <<aGood, PyBool(FALSE)>>>>
    /\ Len(last.ret[2]) = 2
    /\ \E x \in Range(last.ret[2]) : getattr(St, x, aTag) \in {None, PyInt(0)}
    /\ \A x \in Range(last.ret[2]) : getattr(St, x, aName) = PyStr("") /\ getattr(St, x, aKg) = PyReal(0)

\* ----------------------------------------------------------------- C13
\* metaclass.delete(instance) of any instance that was created
DeleteAny ==
    \E instance \in Created :
        LET returned(r) == Did("delete", <<instance>>, r.st, None, r.exc)
        IN  engine = "meta" /\ returned(MetaClass_delete(St, instance))

\* the dicts the instances of a class are selected with
MapsOf(c) == IF c = DOG THEN Maps ELSE {<<<<aId, PyInt(1)>>>>}

\* K.select_many(where_clause), K.select_many()
SelectManyOf ==
    \E c \in {DOG, PER} : \E where_clause \in MapsOf(c) :
        LET returned(r) == Did("select_many", <<c, where_clause>>, r.st, <<"seq", r.seq>>, r.exc)
        IN  engine = "meta" /\ returned(select_many(St, c, where_clause))

SelectManyAll ==
    \E c \in {DOG, PER} :
        /\ engine = "meta"
        /\ Did("select_many", <<c>>, St, <<"seq", select_many_all(St, c)>>, "none")

\* K.select_one(where_clause): the Query is left partially evaluated
SelectOneOf ==
    \E c \in {DOG, PER} : \E where_clause \in MapsOf(c) :
        LET returned(r) == Did("select_one", <<c, where_clause>>, r.st, <<"inst", r.inst>>, r.exc)
        IN  engine = "meta" /\ returned(select_one(St, c, where_clause))

\* R1 formalized with the Dog side one or many; no instance
InitND ==
    \E schema \in {Association_formalize(DefineR1(Empty, FALSE), 1),
                   Association_formalize(DefineR1(Empty, TRUE), 1)} :
        /\ Assign(schema)
        /\ engine = "meta"
        /\ last = NoCall

NextND == New \/ DeleteAny \/ SelectManyOf \/ SelectManyAll \/ SelectOneOf \/ Return

\* new and delete in any order, and selects
SpecND == InitND /\ [][NextND]_vars

\* instances in the order of their creation: the n-th object allocated for a
\* class is <<class, n>>
InCreationOrder(seq) == \A i, j \in DOMAIN seq : i < j => seq[i][2] < seq[j][2]

\* what a step of new or delete does to the pool of x's class
PoolStep(x) ==
    x \in Range(storage'[x[1]]) <=>
        \/ x \in Range(storage[x[1]]) /\ ~(last'.op = "delete" /\ last'.args[1] = x)
        \/ last'.op = "new" /\ last'.exc = "none" /\ last'.ret = <<"inst", x>>

\* C13: after any sequence of new and delete on class K, select_many(K)
\* returns exactly the instances created (new returned them) and not deleted
\* since, in creation order, select_many(K, map) the matching ones among them
\* in that order, and no select returns a deleted instance, also when the
\* query was cached before the delete.
C13_PoolAfterNewDelete ==
    [][/\ \A x \in AllInst : PoolStep(x)
       /\ \A c \in {DOG, PER} :
            /\ InCreationOrder(storage'[c])
            /\ select_many_all(St', c) = storage'[c]
            /\ \A where_clause \in MapsOf(c) :
                 /\ select_many(St', c, where_clause).seq = Matching(St', c, where_clause)
                 /\ select_one(St', c, where_clause).inst \in Range(storage'[c]) \cup {NoInst}]_vars

\* ----------------------------------------------------------------- C14
\* new, delete and selects under either engine
SpecDel == (InitND \/ model_InitPop) /\ [][NextND \/ model_NextPop]_vars

\* the sequence without its element x
Without(seq, x) == SelectSeqBy(seq, Range(seq) \ {x})

\* the exception a delete fails with: DeleteException (xtuml.meta),
\* ModelException (xtuml.model)
DeleteError == IF engine = "meta" THEN "DeleteException" ELSE "ModelException"

\* C14: delete(x) removes x from the pool of its class; delete of an instance
\* that is not in the pool, a second delete of the same instance included,
\* raises the engine's delete error and leaves the pools, the Links and the
\* attribute values unchanged.
C14_Delete ==
    [][last'.op = "delete" =>
          IF last'.args[1] \in Range(storage[last'.args[1][1]])
          THEN /\ last'.exc = "none"
               /\ storage' = [storage EXCEPT ![last'.args[1][1]] = Without(@, last'.args[1])]
          ELSE /\ last'.exc = DeleteError
               /\ UNCHANGED <<storage, links, idict>>]_vars

\* a delete of an instance that was deleted before raised, while instances
\* are linked
C14_Witness ==
    /\ CallIs("delete") /\ last.exc = DeleteError
    /\ last.args[1] \in Created
    /\ last.args[1] \notin Range(storage[last.args[1][1]])
    /\ engine = "meta" => \E a \in DOMAIN links : \E x \in AllInst : links[a]["source"][x] # {}

\* ----------------------------------------------------------------- C15
\* the named arguments of new: referential values that are null (0), that
\* denote a Per, and none
RefArgs(c) ==
    IF c = DOG THEN {<<>>, <<<<aOwner, PyInt(1)>>>>, <<<<aOwner, PyInt(0)>>>>}
    ELSE {<<<<aId, PyInt(1)>>>>, <<<<aId, PyInt(0)>>>>,
          <<<<aId, PyInt(2)>>, <<aPrev, PyInt(1)>>>>,
          <<<<aPrev, PyInt(1)>>, <<aId, PyInt(1)>>>>}

NewWith ==
    \E c \in {DOG, PER} : \E kwargs \in RefArgs(c) :
        LET returned(r) == Did("new", <<c, kwargs>>, r.st, <<"inst", r.ret>>, r.exc)
        IN  /\ engine = "meta"
            /\ Len(hashorder[c]) < MaxInst
            /\ returned(MetaClass_new(St, c, <<>>, kwargs, Len(hashorder[c]) + 1))

\* one association formalized, no instance
InitNew ==
    \E schema \in Schemas :
        /\ Assign(schema)
        /\ engine = "meta"
        /\ last = NoCall

NextNew == NewWith \/ DeleteAny \/ Return

\* instances created with referential values
SpecNew == InitNew /\ [][NextNew]_vars

\* the value supplied under a name, None if none was
Supplied(kwargs, name) ==
    IF \E i \in DOMAIN kwargs : kwargs[i][1] = name
    THEN kwargs[CHOOSE i \in DOMAIN kwargs : kwargs[i][1] = name][2]
    ELSE None

\* the Links out of class c whose referential attributes were all supplied:
\* the pairs <<association, side>>
CoveredLinks(S, c, kwargs) ==
    {S.metaclasses[c].links[i][2] : i \in
        {j \in DOMAIN S.metaclasses[c].links :
            LET lk == LinkOf(S, S.metaclasses[c].links[j][2])
            IN  /\ lk.key_map # <<>>
                /\ \A k \in DOMAIN lk.key_map :
                     /\ lk.key_map[k][2] \in S.metaclasses[c].referential_attributes
                     /\ \E i \in DOMAIN kwargs : kwargs[i][1] = lk.key_map[k][2]}}

\* the instances in the pool of the Link's target class whose identifying
\* attributes equal the values supplied; the null values count when nulls do
Targets(S, ref, kwargs, nulls) ==
    LET lk == LinkOf(S, ref)
    IN  {t \in Range(S.storage[lk.to_metaclass]) :
            \A k \in DOMAIN lk.key_map :
                /\ ~PyNe(getattr(S, t, lk.key_map[k][1]), Supplied(kwargs, lk.key_map[k][2]))
                /\ nulls \/ ~NullValue(TypeOf(S, lk.to_metaclass, lk.key_map[k][1]),
                                       Supplied(kwargs, lk.key_map[k][2]))}

\* new returned an instance that navigates, across every Link whose
\* referential values were supplied, to the targets
RelatedByNew(nulls) ==
    (last'.op = "new" /\ last'.exc = "none") =>
        \A ref \in CoveredLinks(St', last'.args[1], last'.args[2]) :
            Targets(St', ref, last'.args[2], nulls) \subseteq
                Link_navigate(links'[ref[1]][ref[2]], last'.ret[2])

RECURSIVE CreateAgain(_, _, _, _, _)
CreateAgain(S, from, seq, name, k) ==
    IF k > Len(seq) THEN S
    ELSE CreateAgain(MetaClass_new(S, seq[k][1], <<>>,
                                   <<<<name, from.idict[seq[k]][name]>>>>, k).st,
                     from, seq, name, k + 1)

\* the association defined and formalized first, then the Pers and the Dogs
\* of state S created with the values they hold in S, the Pers first
DefinedBefore(S) ==
    CreateAgain(CreateAgain(Association_formalize(
                                DefineR1(Empty, S.associations[1].source_link.many), 1),
                            S, S.storage[PER], aId, 1),
                S, S.storage[DOG], aOwner, 1)

\* the first batch-relate pass of an association defined after the instances
FirstBatchRelate ==
    /\ last = NoCall
    /\ last'.op = "batch_relate"
    /\ associations[1].source_link.key_map = <<>>
    /\ links[1] = [source |-> EmptyLink, target |-> EmptyLink]

\* C16: defining an association after the instances exist gives the same
\* Link neighbor sets as defining it before creating the same instances with
\* the same referential values: the batch-relate pass connects every source
\* instance, in both directions, to every target instance whose identifying
\* attributes equal its referential values.
C16_DefinedAfterAsBefore ==
    [][FirstBatchRelate => links'[1] = DefinedBefore(St).links[1]]_vars

\* ----------------------------------------------------------------- C17
\* the associations that are defined: R1 with one key, the Dog side one or
\* many; R1 with two keys; R2 reflexive.  [rel_id, source_kind, source_keys,
\* source_many, source_phrase, target_kind, target_keys, target_phrase]
Definitions ==
    {[rel_id |-> <<"int", 1>>, source_kind |-> kind[1], source_keys |-> <<aOwner>>,
      source_many |-> many, source_phrase |-> NoPhrase, target_kind |-> kind[2],
      target_keys |-> <<aId>>, target_phrase |-> NoPhrase] :
        kind \in {<<kDog, kPer>>, <<upper(kDog), upper(kPer)>>}, many \in BOOLEAN}
    \cup
    {[rel_id |-> <<"int", 1>>, source_kind |-> kDog, source_keys |-> <<aOwner, aName>>,
      source_many |-> TRUE, source_phrase |-> NoPhrase, target_kind |-> kPer,
      target_keys |-> <<aId, aPrev>>, target_phrase |-> NoPhrase],
     [rel_id |-> <<"str", <<"R", "2">>>>, source_kind |-> kPer, source_keys |-> <<aPrev>>,
      source_many |-> FALSE, source_phrase |-> pNext, target_kind |-> kPer,
      target_keys |-> <<aId>>, target_phrase |-> pPrev]}

\* metamodel.define_association(...)
DefineAny ==
    \E d \in Definitions :
        LET returned(r) == Did("define_association", <<d>>, r.st, None, r.exc)
        IN  /\ engine = "meta"
            /\ associations = <<>>
            /\ returned(define_association(St, d.rel_id, d.source_kind, d.source_keys,
                                           d.source_many, TRUE, d.source_phrase,
                                           d.target_kind, d.target_keys, FALSE, TRUE,
                                           d.target_phrase))

model_DefineAny ==
    \E d \in Definitions :
        LET returned(r) == Did("define_association", <<d>>, r.st, None, r.exc)
        IN  /\ engine = "model"
            /\ associations = <<>>
            /\ returned(model_define_association(St, d.rel_id, d.source_kind, d.source_keys,
                                                 d.source_many, TRUE, d.source_phrase,
                                                 d.target_kind, d.target_keys, FALSE, TRUE,
                                                 d.target_phrase))

model_New ==
    \E c \in {DOG, PER} : \E kwargs \in NewArgs(c) :
        LET returned(r) == Did("new", <<c, kwargs>>, r.st, <<"inst", r.ret>>, r.exc)
        IN  /\ engine = "model"
            /\ Len(hashorder[c]) < MaxInst
            /\ returned(model_MetaClass_new(St, c, kwargs))

\* a metamodel of either engine with its two classes
InitAssoc ==
    \/ InitEmpty
    \/ /\ Assign(model_Empty(kDog, kPer))
       /\ engine = "model"
       /\ last = NoCall

NextAssoc == DefineAny \/ Formalize \/ New \/ model_DefineAny \/ model_New \/ Return

\* an association defined, and formalized, among instances
SpecAssoc == InitAssoc /\ [][NextAssoc]_vars

\* the key of dict MetaClass.links under which the engine files the Link
\* that leads to the class of kind `kind`
LinkKey(rel_id, kind, phrase) ==
    IF engine = "meta" THEN <<upper(kind), <<"str", norm_rel_id(rel_id)>>, phrase>>
    ELSE <<kind, norm_rel_id(rel_id), phrase>>

\* the Link filed in the links of class c under the key: its key map, ends
\* and phrase; key map <<"none">> if there is no such Link
Registered(S, c, key) ==
    LET items == S.metaclasses[c].links
        at(i) == IF engine = "meta" THEN LinkOf(S, items[i][2]) ELSE items[i][2]
        shown(lk) == [key_map |-> lk.key_map, from_metaclass |-> lk.from_metaclass,
                      to_metaclass |-> lk.to_metaclass, phrase |-> lk.phrase]
    IN  IF \E i \in DOMAIN items : items[i][1] = key
        THEN shown(at(CHOOSE i \in DOMAIN items : items[i][1] = key))
        ELSE [key_map |-> <<"none">>]

ClassOf(S, kind) ==
    CHOOSE c \in DOMAIN S.metaclasses : upper(S.metaclasses[c].kind) = upper(kind)

\* both Links of definition d are registered on their MetaClasses
BothRegistered(S, d) ==
    LET src == ClassOf(S, d.source_kind)
        tgt == ClassOf(S, d.target_kind)
        to_target == Registered(S, src, LinkKey(d.rel_id, S.metaclasses[tgt].kind, d.target_phrase))
        to_source == Registered(S, tgt, LinkKey(d.rel_id, S.metaclasses[src].kind, d.source_phrase))
    IN  /\ to_target.key_map # <<"none">> /\ to_source.key_map # <<"none">>
        /\ to_target.from_metaclass = src /\ to_target.to_metaclass = tgt
        /\ to_source.from_metaclass = tgt /\ to_source.to_metaclass = src

\* the key maps of the two Links pair the keys of d, each in the direction
\* the engine keeps it in, and the attribute sets hold the keys
KeysMapped(S, d) ==
    LET src == ClassOf(S, d.source_kind)
        tgt == ClassOf(S, d.target_kind)
        to_target == Registered(S, src, LinkKey(d.rel_id, S.metaclasses[tgt].kind, d.target_phrase))
        to_source == Registered(S, tgt, LinkKey(d.rel_id, S.metaclasses[src].kind, d.source_phrase))
    IN  /\ IF engine = "meta"
           THEN /\ to_source.key_map = zip(d.source_keys, d.target_keys)
                /\ to_target.key_map = zip(d.target_keys, d.source_keys)
           ELSE /\ to_target.key_map = zip(d.source_keys, d.target_keys)
                /\ to_source.key_map = zip(d.target_keys, d.source_keys)
        /\ Range(d.source_keys) \subseteq S.metaclasses[src].referential_attributes
        /\ Range(d.target_keys) \subseteq S.metaclasses[tgt].identifying_attributes

\* the definition that the association of state S was defined with
DefinitionOf(S) ==
    CHOOSE d \in Definitions :
        /\ S.associations[1].rel_id = norm_rel_id(d.rel_id)
        /\ BothRegistered(S, d)
        /\ IF engine = "meta"
           THEN /\ S.associations[1].source_keys = d.source_keys
                /\ S.associations[1].source_link.many = d.source_many
           ELSE /\ Len(S.associations[1].link.key_map) = Len(d.source_keys)
                /\ S.associations[1].reversed_link.many = d.source_many

ChainArgs(k) == <<<<aId, PyInt(k)>>, <<aPrev, PyInt(k - 1)>>>>

RECURSIVE PopulateChain(_, _)
PopulateChain(S, k) ==
    IF k > MaxChain THEN S
    ELSE PopulateChain(MetaClass_new(S, PER, <<>>, ChainArgs(k), k).st, k + 1)

RECURSIVE model_PopulateChain(_, _)
model_PopulateChain(S, k) ==
    IF k > MaxChain THEN S
    ELSE model_PopulateChain(model_MetaClass_new(S, PER, ChainArgs(k)).st, k + 1)

InitSort ==
    /\ last = NoCall
    /\ \/ /\ engine = "meta"
          /\ Assign(PopulateChain(Association_formalize(DefineR2(Empty), 1), 1))
       \/ /\ engine = "model"
          /\ \E kinds \in {<<kDog, kPer>>, <<upper(kDog), upper(kPer)>>} :
                 Assign(model_PopulateChain(model_DefineR2(model_Empty(kinds[1], kinds[2])), 1))

\* the QuerySets that sort_reflexive is called with: the instances of a set
\* of Per instances, in any order
Orders(set) == {s \in [1..Cardinality(set) -> set] : \A i, j \in DOMAIN s : s[i] = s[j] => i = j}

\* the sets sorted: all the instances of Per
SortSets == {set \in SUBSET (Created \cap {<<PER, n>> : n \in 1..MaxChain}) : Cardinality(set) = MaxChain}

\* the relation ids and phrases that sort_reflexive is called with
SortAcross == {<<"int", 2>>} \X {pPrev, pNext}

SortReflexive ==
    \E set \in SortSets :
        \E set_of_instances \in Orders(set), across \in SortAcross :
            LET returned(r) == Did("sort_reflexive", <<set_of_instances, across[1], across[2]>>, St, <<"seq", r.seq>>, r.exc)
            IN  /\ engine = "meta"
                /\ returned(sort_reflexive(St, set_of_instances, across[1], across[2]))

model_SortReflexive ==
    \E set \in SortSets :
        \E set_of_instances \in Orders(set), across \in SortAcross :
            LET returned(r) == Did("sort_reflexive", <<set_of_instances, across[1], across[2]>>, r.st, <<"seq", r.seq>>, r.exc)
            IN  /\ engine = "model"
                /\ returned(model_sort_reflexive(St, set_of_instances, across[1], across[2]))

NextSort ==
    Relate \/ Unrelate \/ SortReflexive \/ model_Relate \/ model_Unrelate \/ model_SortReflexive \/ Return

\* chains and cycles across R2, built by relate and unrelate and sorted, under
\* either engine
SpecSort == InitSort /\ [][NextSort]_vars

\* the instances that x is related to across phrase of R2 in state S: under
\* xtuml.meta the neighbor set of x in the Link of that phrase, under
\* xtuml.model the instances whose key values the referential or identifying
\* values of x equal, none of them null
NeighborsAcross(S, x, phrase) ==
    IF engine = "meta"
    THEN UNION {S.links[a][side][x] : <<a, side>> \in
                   {ref \in (DOMAIN S.links) \X Sides : LinkOf(S, ref).phrase = phrase}}
    ELSE LET items == S.metaclasses[x[1]].links
             related(km, y) ==
                 \A i \in DOMAIN km :
                     /\ model_getattr(S, x, km[i][1]) = model_getattr(S, y, km[i][2])
                     /\ ~model_is_null(S, y, km[i][2])
         IN  {y \in Range(S.storage[PER]) :
                \E i \in DOMAIN items : items[i][2].phrase = phrase /\ related(items[i][2].key_map, y)}

OtherPhrase(phrase) == IF phrase = pPrev THEN pNext ELSE pPrev

\* order is a linear chain: its first instance has no neighbor across phrase,
\* every other one has the one before it, and across the opposing phrase
\* every instance has the one after it, the last one none
LinearChain(S, order, phrase) ==
    /\ order # <<>>
    /\ \A i \in DOMAIN order :
           /\ NeighborsAcross(S, order[i], phrase) = IF i = 1 THEN {} ELSE {order[i - 1]}
           /\ NeighborsAcross(S, order[i], OtherPhrase(phrase)) =
                  IF i = Len(order) THEN {} ELSE {order[i + 1]}

\* order is a single cycle: every instance has the one after it across the
\* opposing phrase, the last one the first, and the one before it across phrase
SingleCycle(S, order, phrase) ==
    /\ order # <<>>
    /\ \A i \in DOMAIN order :
           /\ NeighborsAcross(S, order[i], OtherPhrase(phrase)) = {order[(i % Len(order)) + 1]}
           /\ NeighborsAcross(S, order[(i % Len(order)) + 1], phrase) = {order[i]}

\* C18: sort_reflexive applied to the instances of a linear chain across the
\* 1C-1C reflexive association, in any input order, returns them in the order
\* of the chain (first the instance with no neighbor across the given phrase,
\* then each time the neighbor across the opposing phrase); applied to the
\* instances of a single cycle it returns each of them exactly once.
C18_SortReflexive ==
    [][(last = NoCall /\ last'.op = "sort_reflexive") =>
          \A order \in Orders(Range(last'.args[1])) :
              /\ LinearChain(St, order, last'.args[3]) =>
                     last'.exc = "none" /\ last'.ret = <<"seq", order>>
              /\ SingleCycle(St, order, last'.args[3]) =>
                     last'.exc = "none" /\ last'.ret[2] \in Orders(Range(last'.args[1]))]_vars

\* a chain of MaxChain instances sorted from an input that was not in the
\* order of the chain
C18_Witness ==
    /\ CallIs("sort_reflexive") /\ last.exc = "none"
    /\ Len(last.args[1]) = MaxChain
    /\ last.ret # <<"seq", last.args[1]>>
    /\ LinearChain(St, last.ret[2], last.args[3])

\* ------------------------------------------------------------------ C19
\* the places that the hashes of the objects may give them in a Python set,
\* the k-th object allocated among the k - 1 before it
HashPlaces == {hpos \in [1..MaxInst -> 1..MaxInst] : \A k \in 1..MaxInst : hpos[k] <= k}

\* R1 with many Dogs to a Per, formalized; MaxInst instances of each class,
\* unrelated, their hashes in any order
InitNav ==
    \E dogs \in HashPlaces, pers \in HashPlaces :
        /\ Assign(Populate(Populate(Association_formalize(DefineR1(Empty, TRUE), 1),
                                    DOG, DogArgs, dogs, 1),
                           PER, PerArgs, pers, 1))
        /\ engine = "meta"
        /\ last = NoCall

\* navigate_many(inst).nav(kind, 1)()
NavigateMany ==
    \E inst \in Created, kind \in {kDog, kPer} :
        LET returned(r) == Did("navigate_many", <<inst, kind>>, St, <<"seq", OrderedSet(r.seq)>>, r.exc)
        IN  returned(NavChain_nav(St, inst, kind, <<"int", 1>>, NoPhrase))

\* navigate_one(inst).nav(kind, 1)()
NavigateOne ==
    \E inst \in Created, kind \in {kDog, kPer} :
        LET returned(r) == Did("navigate_one", <<inst, kind>>, St, <<"inst", r.inst>>, r.exc)
        IN  returned(navigate_one(St, inst, kind, <<"int", 1>>, NoPhrase))

NextNav == Relate \/ Unrelate \/ NavigateMany \/ NavigateOne \/ Return

SpecNav == InitNav /\ [][NextNav]_vars

\* what navigating from x to kind across R1 yields in state S, in order
Yields(S, x, kind) == NavChain_nav(S, x, kind, <<"int", 1>>, NoPhrase).seq

\* C19: navigating from an instance across a many Link yields its neighbors
\* in the order in which they were connected, and a One chain returns the
\* neighbor that was related first. Stated of every relate that returns: a
\* navigation that yields another set of instances after it than before
\* yields the instances it yielded before, in the same order, and then the
\* instance that the relate connected; the first one stays the first.
C19_InsertionOrder ==
    [][(last = NoCall /\ last'.op = "relate" /\ last'.exc = "none") =>
          \A x \in Created, kind \in {kDog, kPer} :
              Yields(St', x, kind) # Yields(St, x, kind) =>
                  /\ \E y \in {last'.args[1], last'.args[2]} :
                         Yields(St', x, kind) = Append(Yields(St, x, kind), y)
                  /\ Yields(St, x, kind) # <<>> =>
                         navigate_one(St', x, kind, <<"int", 1>>, NoPhrase).inst = Yields(St, x, kind)[1]]_vars

\* ------------------------------------------------------------------ C20
\* the identifiers that calls are made with, each as it was declared and in
\* another letter case
IdKinds == {kDog, upper(kDog), kPer, upper(kPer)}
IdNames == {aName, upper(aName), aOwner, upper(aOwner), aId, upper(aId)}
IdRels == {<<"R", "1">>, <<"r", "1">>, <<"R", "2">>, <<"r", "2">>}
IdPhrases == {NoPhrase, pPrev, upper(pPrev), pNext, upper(pNext)}

\* the (rel_id, phrase) pairs that calls are made with
CaseAcross ==
    {<<(<<"R", "1">>), NoPhrase>>, <<(<<"r", "1">>), NoPhrase>>, <<(<<"R", "2">>), pPrev>>,
     <<(<<"R", "2">>), upper(pPrev)>>, <<(<<"r", "2">>), pNext>>}

\* R1 (many Dogs to a Per) and R2 (reflexive on Per), formalized; one Dog and
\* one Per
InitCase ==
    /\ Assign(MetaClass_new(MetaClass_new(
                  Association_formalize(DefineR2(Association_formalize(DefineR1(Empty, TRUE), 1)), 2),
                  DOG, <<>>, DogArgs[1], 1).st,
              PER, <<>>, PerArgs[1], 1).st)
    /\ engine = "meta"
    /\ last = NoCall

CaseRelate ==
    \E from_instance \in Created, to_instance \in Created, across \in CaseAcross :
        Called("relate", <<from_instance, to_instance, <<"str", across[1]>>, across[2]>>,
               relate(St, from_instance, to_instance, <<"str", across[1]>>, across[2]))

CaseUnrelate ==
    \E from_instance \in Created, to_instance \in Created, across \in CaseAcross :
        Called("unrelate", <<from_instance, to_instance, <<"str", across[1]>>, across[2]>>,
               unrelate(St, from_instance, to_instance, <<"str", across[1]>>, across[2]))

\* metaclass.find_link(kind, rel_id, phrase)
CaseFindLink ==
    \E c \in {DOG, PER}, kind \in IdKinds, across \in CaseAcross :
        Did("find_link", <<c, kind, <<"str", across[1]>>, across[2]>>, St,
            <<"link", find_link(St, c, kind, <<"str", across[1]>>, across[2])>>, "none")

\* navigate_many(inst).nav(kind, rel_id, phrase)()
CaseNavigate ==
    \E inst \in Created, kind \in IdKinds, across \in CaseAcross :
        LET returned(r) == Did("navigate", <<inst, kind, <<"str", across[1]>>, across[2]>>, St, <<"seq", r.seq>>, r.exc)
        IN  returned(NavChain_nav(St, inst, kind, <<"str", across[1]>>, across[2]))

\* getattr(inst, name)
CaseGetAttr ==
    \E inst \in Created, name \in IdNames :
        Did("getattr", <<inst, name>>, St, getattr(St, inst, name), "none")

\* setattr(inst, name, value) on the Name of a Dog
CaseSetAttr ==
    \E inst \in Created \cap InstOf(DOG), name \in {aName, upper(aName)} :
        Did("setattr", <<inst, name, PyStr("Max")>>, setattr(St, inst, name, PyStr("Max")), None, "none")

\* the named arguments of new: the owner_id or the Name of a Dog
CaseArgs == {<<<<name, PyInt(1)>>>> : name \in {aOwner, upper(aOwner)}} \cup {<<<<name, PyStr("Max")>>>> : name \in {aName, upper(aName)}}

\* Dog.new(**kwargs)
CaseNew ==
    \E kwargs \in CaseArgs :
        LET returned(r) == Did("new", <<DOG, kwargs>>, r.st, <<"inst", r.ret>>, r.exc)
        IN  /\ Len(hashorder[DOG]) < MaxInst
            /\ returned(MetaClass_new(St, DOG, <<>>, kwargs, Len(hashorder[DOG]) + 1))

\* Dog.delete_attribute(name) of the Name
CaseDeleteAttribute ==
    \E name \in {aName, upper(aName)} :
        Did("delete_attribute", <<DOG, name>>, MetaClass_delete_attribute(St, DOG, name), None, "none")

\* metamodel.find_metaclass(kind)
CaseFindMetaclass ==
    \E kind \in IdKinds :
        Did("find_metaclass", <<kind>>, St, <<"int", find_metaclass(St, kind)>>, "none")

NextCase ==
    CaseRelate \/ CaseUnrelate \/ CaseFindLink \/ CaseNavigate \/ CaseGetAttr \/ CaseSetAttr \/ CaseNew \/ CaseDeleteAttribute \/ CaseFindMetaclass \/ Return

SpecCase == InitCase /\ [][NextCase]_vars

\* the spellings of an identifier among those that calls are made with
Respell(s, pool) == {t \in pool : upper(t) = upper(s)}

\* the argument lists that differ from args in the letter case of the
\* identifiers only
Respellings(op, args) ==
    IF op \in {"relate", "unrelate"}
    THEN {<<args[1], args[2], <<"str", rel>>, phrase>> :
             rel \in Respell(args[3][2], IdRels), phrase \in Respell(args[4], IdPhrases)}
    ELSE IF op \in {"find_link", "navigate"}
    THEN {<<args[1], kind, <<"str", rp[1]>>, rp[2]>> :
             kind \in Respell(args[2], IdKinds),
             rp \in Respell(args[3][2], IdRels) \X Respell(args[4], IdPhrases)}
    ELSE IF op = "getattr" THEN {<<args[1], name>> : name \in Respell(args[2], IdNames)}
    ELSE IF op = "setattr" THEN {<<args[1], name, args[3]>> : name \in Respell(args[2], IdNames)}
    ELSE IF op = "new"
    THEN {<<args[1], <<<<name, args[2][1][2]>>>>>> : name \in Respell(args[2][1][1], IdNames)}
    ELSE IF op = "delete_attribute" THEN {<<args[1], name>> : name \in Respell(args[2], IdNames)}
    ELSE IF op = "find_metaclass" THEN {<<kind>> : kind \in Respell(args[1], IdKinds)}
    ELSE {}

\* what the call op(args) made in state S leaves and returns: <<st, ret, exc>>
Outcome(S, op, args) ==
    LET called(r) == <<r.st, PyBool(r.ret), r.exc>>
        created(r) == <<r.st, <<"inst", r.ret>>, r.exc>>
        navigated(r) == <<S, <<"seq", r.seq>>, r.exc>>
    IN  IF op = "relate" THEN called(relate(S, args[1], args[2], args[3], args[4]))
        ELSE IF op = "unrelate" THEN called(unrelate(S, args[1], args[2], args[3], args[4]))
        ELSE IF op = "find_link"
        THEN <<S, <<"link", find_link(S, args[1], args[2], args[3], args[4])>>, "none">>
        ELSE IF op = "navigate"
        THEN navigated(NavChain_nav(S, args[1], args[2], args[3], args[4]))
        ELSE IF op = "getattr" THEN <<S, getattr(S, args[1], args[2]), "none">>
        ELSE IF op = "setattr" THEN <<setattr(S, args[1], args[2], args[3]), None, "none">>
        ELSE IF op = "new"
        THEN created(MetaClass_new(S, args[1], <<>>, args[2], Len(S.hashorder[args[1]]) + 1))
        ELSE IF op = "delete_attribute"
        THEN <<MetaClass_delete_attribute(S, args[1], args[2]), None, "none">>
        ELSE <<S, <<"int", find_metaclass(S, args[1])>>, "none">>

\* C20: lookups by class kind, attribute name, relation id and phrase are
\* case-insensitive: every call of find_metaclass, getattr, setattr, new,
\* delete_attribute, find_link, navigate, relate and unrelate leaves the state
\* and returns the result that the same call leaves and returns with its
\* identifiers spelled in another letter case.
C20_CaseInsensitive ==
    [][last = NoCall =>
          \A args \in Respellings(last'.op, last'.args) :
              Outcome(St, last'.op, args) = <<St', last'.ret, last'.exc>>]_vars

\* ------------------------------------------------------------------ C21
\* the (rel_id, phrase) pairs that calls are made with: R1, R2 with each of
\* its phrases and with the phrase omitted, and R3, which no schema defines
CallAcross ==
    {<<(<<"int", 1>>), NoPhrase>>, <<(<<"int", 2>>), NoPhrase>>, <<(<<"int", 2>>), pPrev>>,
     <<(<<"int", 2>>), pNext>>, <<(<<"int", 3>>), NoPhrase>>}

\* relate(from_instance, to_instance, rel_id, phrase), either instance
\* possibly None, the phrase '' by default
CallRelate ==
    \E from_instance \in Created \cup {NoInst}, to_instance \in Created \cup {NoInst}, across \in CallAcross :
        Called("relate", <<from_instance, to_instance, across[1], across[2]>>,
               IF engine = "meta" THEN relate(St, from_instance, to_instance, across[1], across[2])
               ELSE model_relate(St, from_instance, to_instance, across[1], across[2]))

\* unrelate(from_instance, to_instance, rel_id, phrase), either instance
\* possibly None, the phrase '' by default
CallUnrelate ==
    \E from_instance \in Created \cup {NoInst}, to_instance \in Created \cup {NoInst}, across \in CallAcross :
        Called("unrelate", <<from_instance, to_instance, across[1], across[2]>>,
               IF engine = "meta" THEN unrelate(St, from_instance, to_instance, across[1], across[2])
               ELSE model_unrelate(St, from_instance, to_instance, across[1], across[2]))

\* navigate_many(inst).nav(kind, rel_id, phrase)()
CallNavigateMany ==
    \E inst \in Created, kind \in {kDog, kPer, upper(kPer)}, across \in CallAcross :
        LET meta_returned(r) == Did("navigate_many", <<inst, kind, across[1], across[2]>>, St, <<"seq", OrderedSet(r.seq)>>, r.exc)
            model_returned(r) == Did("navigate_many", <<inst, kind, across[1], across[2]>>, r.st, <<"seq", r.seq>>, r.exc)
        IN  IF engine = "meta" THEN meta_returned(NavChain_nav(St, inst, kind, across[1], across[2]))
            ELSE model_returned(model_navigate_many(St, inst, kind, across[1], across[2]))

\* navigate_one(inst).nav(kind, rel_id, phrase)()
CallNavigateOne ==
    \E inst \in Created, kind \in {kDog, kPer, upper(kPer)}, across \in CallAcross :
        LET meta_returned(r) == Did("navigate_one", <<inst, kind, across[1], across[2]>>, St, <<"inst", r.inst>>, r.exc)
            model_returned(r) == Did("navigate_one", <<inst, kind, across[1], across[2]>>, r.st, <<"inst", r.inst>>, r.exc)
        IN  IF engine = "meta" THEN meta_returned(navigate_one(St, inst, kind, across[1], across[2]))
            ELSE model_returned(model_navigate_one(St, inst, kind, across[1], across[2]))

NextCalls == CallRelate \/ CallUnrelate \/ CallNavigateMany \/ CallNavigateOne \/ Return

\* one association, under either engine; relate, unrelate and the two
\* navigations called with any of the arguments
SpecCalls == (Init \/ model_Init) /\ [][NextCalls]_vars

\* the error of an unknown link: UnknownLinkException of xtuml.meta,
\* UnknownAssociationException of xtuml.model
UnknownLink == IF engine = "meta" THEN "UnknownLinkException" ELSE "UnknownAssociationException"

\* the schema holds the reflexive association R2, defined with the phrases
\* 'next' and 'prev', and the call that the step makes is relate, unrelate or
\* a navigation across R2 between instances of Per with the phrase omitted
PhraseOmitted ==
    /\ associations[1].rel_id = <<"R", "2">>
    /\ last = NoCall
    /\ last'.op \in {"relate", "unrelate", "navigate_many", "navigate_one"}
    /\ last'.args[1][1] = PER
    /\ last'.op \in {"relate", "unrelate"} => last'.args[2][1] = PER
    /\ last'.op \in {"navigate_many", "navigate_one"} => upper(last'.args[2]) = upper(kPer)
    /\ last'.args[3] = <<"int", 2>>
    /\ last'.args[4] = NoPhrase

LinksOn(S, c) ==
    LET items == S.metaclasses[c].links
    IN  {IF engine = "meta" THEN LinkOf(S, items[i][2]) ELSE items[i][2] : i \in DOMAIN items}

\* no Link registered on class c leads to a class of that kind across
\* rel_id and phrase
Unregistered(S, c, kind, rel_id, phrase) ==
    \A lk \in LinksOn(S, c) :
        ~ /\ upper(S.metaclasses[lk.to_metaclass].kind) = upper(kind)
          /\ lk.rel_id = norm_rel_id(rel_id)
          /\ lk.phrase = phrase

\* C22: navigating from an instance across a (kind, relation id, phrase)
\* triple that is not registered as a Link on the class of the instance
\* raises the unknown-link error instead of returning an empty result, from a
\* Many chain and from a One chain.
C22_UnknownLink ==
    [][(/\ last = NoCall
        /\ last'.op \in {"navigate_many", "navigate_one"}
        /\ Unregistered(St, last'.args[1][1], last'.args[2], last'.args[3], last'.args[4]))
          => last'.exc = UnknownLink]_vars

\* a One chain from an instance of Per that raised for the empty phrase of
\* R2 while the instance has a neighbor across 'next'
C22_Witness ==
    /\ CallIs("navigate_one") /\ last.exc = UnknownLink
    /\ last.args[1][1] = PER /\ upper(last.args[2]) = upper(kPer)
    /\ last.args[3] = <<"int", 2>> /\ last.args[4] = NoPhrase
    /\ Unregistered(St, PER, last.args[2], last.args[3], last.args[4])
    /\ NeighborsAcross(St, last.args[1], pNext) # {}

\* the same from a Many chain
C22_WitnessMany ==
    /\ CallIs("navigate_many") /\ last.exc = UnknownLink
    /\ Unregistered(St, last.args[1][1], last.args[2], last.args[3], last.args[4])

\* ------------------------------------------------------------------ C23
\* the schemas instances are created in: Dog with an attribute of every
\* type and no association, and Dog and Per with R1 one-to-one (formalized
\* under xtuml.meta)
InitArgs ==
    /\ \/ engine = "meta" /\ \E S \in {EmptyTyped, Association_formalize(DefineR1(Empty, FALSE), 1)} : Assign(S)
       \/ engine = "model" /\ \E S \in {EmptyTyped, model_DefineR1(model_Empty(kDog, kPer))} : Assign(S)
    /\ last = NoCall

\* the positional arguments of new
PositionalArgs(c) ==
    IF c = PER THEN {<<>>, <<PyInt(1)>>}
    ELSE IF associations = <<>> THEN {<<>>, <<PyStr("Rex")>>, <<PyStr("Rex"), PyInt(7), PyInt(3)>>}
    ELSE {<<>>, <<PyStr("Rex")>>, <<PyStr("Rex"), PyInt(1)>>}

\* the named arguments of new, a name also in another letter case
NamedArgs(c) ==
    IF c = PER THEN {<<>>, <<<<aId, PyInt(1)>>>>}
    ELSE IF associations = <<>>
    THEN {<<>>, <<<<aName, PyStr("Max")>>>>, <<<<upper(aAge), PyInt(5)>>, <<aGood, PyBool(TRUE)>>>>,
          <<<<aKg, PyReal(2)>>>>}
    ELSE {<<>>, <<<<aName, PyStr("Max")>>>>, <<<<aOwner, PyInt(1)>>>>}

\* MetaClass.new(*args, **kwargs) of xtuml.model: the positional arguments
\* are assigned to the attributes in their order, then the named ones
model_MetaClass_new_args(S, c, args, kwargs) ==
    LET attrs == S.metaclasses[c].attributes
        positional == [i \in 1..(IF Len(args) < Len(attrs) THEN Len(args) ELSE Len(attrs))
                          |-> <<attrs[i][1], args[i]>>]
    IN  model_MetaClass_new(S, c, positional \o kwargs)

\* metaclass.new(*args, **kwargs)
NewArgsKwargs ==
    \E c \in {DOG, PER} : \E args \in PositionalArgs(c), kwargs \in NamedArgs(c) :
        LET returned(r) == Did("new", <<c, kwargs, args>>, r.st, <<"inst", r.ret>>, r.exc)
        IN  /\ Len(hashorder[c]) < MaxInst
            /\ returned(IF engine = "meta"
                        THEN MetaClass_new(St, c, args, kwargs, Len(hashorder[c]) + 1)
                        ELSE model_MetaClass_new_args(St, c, args, kwargs))

NextArgs == NewArgsKwargs \/ Return

\* instances created with positional and named arguments, under either engine
SpecArgs == InitArgs /\ [][NextArgs]_vars

\* the primitive default of a type, named in upper case
PrimitiveDefault(uname) ==
    CASE uname = cBOOLEAN -> PyBool(FALSE)
      [] uname = cINTEGER -> PyInt(0)
      [] uname = cREAL -> PyReal(0)
      [] uname = cSTRING -> PyStr("")

\* attribute k of instance x of class c, created by new(*args, **kwargs),
\* reads in state S the named argument if one is given, else the positional
\* argument at its position if one is given, else the primitive default of
\* its type; nothing is said of the default of a UNIQUE_ID
Bound(S, c, x, k, args, kwargs) ==
    LET attr == S.metaclasses[c].attributes[k]
        read == IF engine = "meta" THEN getattr(S, x, attr[1]) ELSE model_getattr(S, x, attr[1])
        named == {i \in DOMAIN kwargs : upper(kwargs[i][1]) = upper(attr[1])}
    IN  IF named # {} THEN \E i \in named : read = kwargs[i][2]
        ELSE IF k <= Len(args) THEN read = args[k]
        ELSE upper(attr[2]) # cUNIQUE_ID => read = PrimitiveDefault(upper(attr[2]))

\* the instance that the call of new in this step returns holds its
\* non-referential attributes as Bound says
NewBinds ==
    LET c == last'.args[1]
        mc == metaclasses[c]
    IN  \A k \in DOMAIN mc.attributes :
            mc.attributes[k][1] \notin mc.referential_attributes =>
                Bound(St', c, last'.ret[2], k, last'.args[3], last'.args[2])

\* C23: new(*positional, **named) appends to the pool and returns an
\* instance in which each non-referential attribute holds the named argument
\* if one is given, else the positional argument at its schema position if
\* one is given, else the primitive default of its type (BOOLEAN false,
\* INTEGER 0, REAL 0.0, STRING '').
C23_NewBinds ==
    [][(last = NoCall /\ last'.op = "new") =>
          /\ last'.exc = "none"
          /\ last'.ret[2] \in Range(storage'[last'.args[1]]) \ Range(storage[last'.args[1]])
          /\ NewBinds]_vars

\* C23 of the calls of new that return: the instance is appended to the pool
\* and its non-referential attributes hold the arguments and the defaults
C23_ReturnedNewBinds ==
    [][(last = NoCall /\ last'.op = "new" /\ last'.exc = "none") =>
          /\ storage'[last'.args[1]] = Append(storage[last'.args[1]], last'.ret[2])
          /\ NewBinds]_vars

\* ------------------------------------------------------------------ C24
\* C24: new with supplied referential values never fails because the values
\* cannot be honoured (no instance of the target class holds them, or
\* relating the new instance would exceed the cardinality of a non-many
\* Link): every such call returns the new instance, which is in the pool.
C24_NewNeverFails ==
    [][(last = NoCall /\ last'.op = "new") =>
          /\ last'.exc = "none"
          /\ last'.ret[2] \in Range(storage'[last'.args[1]]) \ Range(storage[last'.args[1]])]_vars

\* ------------------------------------------------------------------ C25
\* MetaModel.__init__: no class, no association
MetaModel ==
    [metaclasses |-> <<>>, associations |-> <<>>, links |-> <<>>, storage |-> <<>>,
     idict |-> [i \in AllInst |-> EmptyDict], cache |-> <<>>, id_generator |-> 0,
     hashorder |-> <<>>]

\* MetaModel.define_class without the test for a class of that name: the
\* new MetaClass, with no instance, takes the place of the one that
\* self.metaclasses held under the kind in upper case
define_class_unchecked(S, kind, attributes) ==
    LET replace(c) ==
            [S EXCEPT !.metaclasses[c] = MetaClass(kind, attributes),
                      !.storage[c] = <<>>, !.cache[c] = EmptyDict]
        add == [S EXCEPT !.metaclasses = Append(@, MetaClass(kind, attributes)),
                         !.storage = Append(@, <<>>), !.cache = Append(@, EmptyDict),
                         !.hashorder = Append(@, <<>>)]
        defined == {c \in DOMAIN S.metaclasses : upper(S.metaclasses[c].kind) = upper(kind)}
    IN  [st |-> IF defined # {} THEN replace(Min(defined)) ELSE add, exc |-> "none"]

\* MetaModel.define_class of xtuml.meta: [st, exc]
define_class(S, kind, attributes) ==
    IF \E c \in DOMAIN S.metaclasses : upper(S.metaclasses[c].kind) = upper(kind)
    THEN [st |-> S, exc |-> "MetaModelException"]
    ELSE [st |-> [S EXCEPT !.metaclasses = Append(@, MetaClass(kind, attributes)),
                           !.storage = Append(@, <<>>), !.cache = Append(@, EmptyDict),
                           !.hashorder = Append(@, <<>>)],
          exc |-> "none"]

\* MetaModel.define_class of xtuml.model: [st, exc]
model_define_class(S, kind, attributes) ==
    IF \E c \in DOMAIN S.metaclasses : upper(S.metaclasses[c].kind) = upper(kind)
    THEN [st |-> S, exc |-> "ModelException"]
    ELSE [st |-> [S EXCEPT !.metaclasses = Append(@, MetaClass(kind, attributes)),
                           !.storage = Append(@, <<>>), !.cache = Append(@, EmptyDict),
                           !.hashorder = Append(@, <<>>)],
          exc |-> "none"]

\* the kinds and the attribute lists that classes are defined with
DefinedKinds == {kDog, upper(kDog), kPer, upper(kPer)}
DefinedAttributes == {<<<<aName, tSTRING>>>>, <<<<aId, tUNIQUE_ID>>, <<aAge, tINTEGER>>>>}

\* an empty metamodel, under either engine
InitClasses ==
    /\ Assign(MetaModel)
    /\ engine \in {"meta", "model"}
    /\ last = NoCall

\* metamodel.define_class(kind, attributes)
DefineClass ==
    \E kind \in DefinedKinds, attributes \in DefinedAttributes :
        LET returned(r) == Did("define_class", <<kind, attributes>>, r.st, None, r.exc)
        IN  returned(IF engine = "meta" THEN define_class(St, kind, attributes)
                     ELSE model_define_class(St, kind, attributes))

\* metamodel.new(kind) of a class that is defined
NewOfClass ==
    \E c \in DOMAIN metaclasses :
        LET returned(r) == Did("new", <<c, <<>>>>, r.st, <<"inst", r.ret>>, r.exc)
        IN  /\ Len(hashorder[c]) < MaxInst
            /\ returned(IF engine = "meta" THEN MetaClass_new(St, c, <<>>, <<>>, Len(hashorder[c]) + 1)
                        ELSE model_MetaClass_new(St, c, <<>>))

NextClasses == DefineClass \/ NewOfClass \/ Return

\* classes defined and instances created in any order
SpecClasses == InitClasses /\ [][NextClasses]_vars

\* the classes of state S whose kind equals kind, ignoring letter case
ClassesOfKind(S, kind) == {c \in DOMAIN S.metaclasses : upper(S.metaclasses[c].kind) = upper(kind)}

\* C25: define_class with a kind equal, ignoring letter case, to a kind
\* already defined raises an error (MetaModelException of xtuml.meta,
\* ModelException of xtuml.model) and leaves the MetaClasses, their
\* attributes and the instances and their pools unchanged; after every call
\* of define_class no two MetaClasses have the same kind in upper case.
C25_DefineClassTwice ==
    [][(last = NoCall /\ last'.op = "define_class") =>
          /\ ClassesOfKind(St, last'.args[1]) # {} =>
                 /\ last'.exc = (IF engine = "meta" THEN "MetaModelException" ELSE "ModelException")
                 /\ metaclasses' = metaclasses /\ storage' = storage /\ idict' = idict
          /\ \A kind \in DefinedKinds : Cardinality(ClassesOfKind(St', kind)) <= 1]_vars

\* define_class('DOG', ...) raised for a metamodel that holds the class Dog,
\* with other attributes and with instances
C25_Witness ==
    /\ CallIs("define_class") /\ last.exc # "none"
    /\ \E c \in ClassesOfKind(St, last.args[1]) :
         /\ metaclasses[c].kind # last.args[1]
         /\ metaclasses[c].attributes # last.args[2]
         /\ storage[c] # <<>>

\* ------------------------------------------------------------------ C26
\* the associations that the two engines are compared on, as the arguments
\* of define_association: R1 one-to-one, R1 many-to-one, and the reflexive R2
TwinDefinitions ==
    {<<(<<"int", 1>>), upper(kDog), <<aOwner>>, FALSE, TRUE, NoPhrase, upper(kPer), <<aId>>, FALSE, TRUE, NoPhrase>>,
     <<(<<"int", 1>>), upper(kDog), <<aOwner>>, TRUE, TRUE, NoPhrase, upper(kPer), <<aId>>, FALSE, TRUE, NoPhrase>>,
     <<(<<"int", 2>>), upper(kPer), <<aPrev>>, FALSE, TRUE, pNext, upper(kPer), <<aId>>, FALSE, TRUE, pPrev>>}

\* MetaModel() followed by define_class('DOG', ...) and define_class('PER', ...)
TwinClasses == model_Empty(upper(kDog), upper(kPer))

\* the program run with xtuml.meta: the association d defined and
\* formalized, MaxInst Dogs and MaxInst Pers with the Ids 1, 2, ...
meta_twin(d) ==
    Populate(Populate(Association_formalize(
                          define_association(TwinClasses, d[1], d[2], d[3], d[4], d[5], d[6], d[7], d[8], d[9], d[10], d[11]).st, 1),
                      DOG, DogArgs, AllocationOrder, 1),
             PER, PerArgs, AllocationOrder, 1)

\* the same program run with xtuml.model
model_twin(d) ==
    model_Populate(model_Populate(
                       model_define_association(TwinClasses, d[1], d[2], d[3], d[4], d[5], d[6], d[7], d[8], d[9], d[10], d[11]).st,
                       DOG, DogArgs, 1),
                   PER, PerArgs, 1)

AssignBoth(S, T) ==
    /\ metaclasses = S.metaclasses
    /\ associations = S.associations
    /\ links = S.links
    /\ storage = S.storage
    /\ idict = S.idict
    /\ cache = S.cache
    /\ id_generator = S.id_generator
    /\ hashorder = S.hashorder
    /\ twin = [st |-> T, ret |-> None, exc |-> "none"]
    /\ generators = <<>>

\* the same program run with xtuml.meta and with xtuml.model, on one of the
\* associations
InitTwin ==
    \E d \in TwinDefinitions :
        /\ AssignBoth(meta_twin(d), model_twin(d))
        /\ engine = "meta"
        /\ last = NoCall

\* the same call made under both engines: r is what xtuml.meta does, m what
\* xtuml.model does
TwinCalled(op, args, r, m) ==
    /\ last = NoCall
    /\ Changes(r.st)
    /\ last' = [op |-> op, args |-> args, ret |-> PyBool(r.ret), exc |-> r.exc]
    /\ twin' = [st |-> m.st, ret |-> PyBool(m.ret), exc |-> m.exc]
    /\ generators' = generators

TwinRelate ==
    \E from_instance \in Created, to_instance \in Created, across \in Across :
        TwinCalled("relate", <<from_instance, to_instance, across[1], across[2]>>,
                   relate(St, from_instance, to_instance, across[1], across[2]),
                   model_relate(twin.st, from_instance, to_instance, across[1], across[2]))

TwinUnrelate ==
    \E from_instance \in Created, to_instance \in Created, across \in Across :
        TwinCalled("unrelate", <<from_instance, to_instance, across[1], across[2]>>,
                   unrelate(St, from_instance, to_instance, across[1], across[2]),
                   model_unrelate(twin.st, from_instance, to_instance, across[1], across[2]))

NextTwin == TwinRelate \/ TwinUnrelate \/ Return

\* the same sequence of relate and unrelate calls under both engines
SpecTwin == InitTwin /\ [][NextTwin]_vars

\* navigate_many(x).nav(kind, rel_id, phrase)() raises under both engines or
\* under none, and yields the same instances
SameNavigation(S, T) ==
    \A x \in Created, kind \in {upper(kDog), upper(kPer)}, across \in Across :
        LET same(a, b) == (a.exc = "none") = (b.exc = "none") /\ Range(a.seq) = Range(b.seq)
        IN  same(NavChain_nav(S, x, kind, across[1], across[2]),
                 model_navigate_many(T, x, kind, across[1], across[2]))

\* the referential attributes read the same under both engines
SameReferentials(S, T) ==
    \A x \in Created :
        \A name \in S.metaclasses[x[1]].referential_attributes \cup T.metaclasses[x[1]].referential_attributes :
            getattr(S, x, name) = model_getattr(T, x, name)

\* C26: for every sequence of relate and unrelate calls on the same schema
\* and the same population, xtuml.meta and xtuml.model accept and reject the
\* same calls, and after each call give the same navigation results and the
\* same values of the referential attributes.
C26_EnginesEquivalent ==
    [][(last = NoCall /\ last'.op \in {"relate", "unrelate"}) =>
          /\ (last'.exc = "none") = (twin'.exc = "none")
          /\ SameNavigation(St', twin'.st)
          /\ SameReferentials(St', twin'.st)]_vars

\* ------------------------------------------------------------------ C27
\* MetaClass.clone(instance) of xtuml.meta, self being the metaclass of the
\* instance: the attribute values are read with getattr and passed to new as
\* positional arguments: [st, ret, exc]
MetaClass_clone(S, instance, hpos) ==
    LET attrs == S.metaclasses[instance[1]].attributes
        new(args) ==
            IF \E i \in DOMAIN args : args[i] = AttributeError
            THEN [st |-> S, ret |-> NoInst, exc |-> "AttributeError"]
            ELSE MetaClass_new(S, instance[1], args, <<>>, hpos)
    IN  new([i \in DOMAIN attrs |-> getattr(S, instance, attrs[i][1])])

\* MetaModel.clone(instance) of xtuml.model: new(kind) without arguments,
\* then setattr of every attribute value read with getattr: [st, ret, exc]
model_clone(S, instance) ==
    LET attrs == S.metaclasses[instance[1]].attributes
        copy(r, items) ==
            IF r.exc # "none" THEN r
            ELSE [st |-> model_new_assign(r.st, r.ret, items, 1), ret |-> r.ret, exc |-> "none"]
    IN  copy(model_MetaClass_new(S, instance[1], <<>>),
             [i \in DOMAIN attrs |-> <<attrs[i][1], model_getattr(S, instance, attrs[i][1])>>])

\* one association, no instance, under either engine
InitClone ==
    /\ \/ engine = "meta" /\ \E S \in Schemas : Assign(S)
       \/ engine = "model" /\ \E S \in model_Schemas : Assign(S)
    /\ last = NoCall

\* new(**kwargs) with and without referential values
NewToClone ==
    \E c \in {DOG, PER} : \E kwargs \in RefArgs(c) :
        LET returned(r) == Did("new", <<c, kwargs>>, r.st, <<"inst", r.ret>>, r.exc)
        IN  /\ Len(hashorder[c]) < MaxInst
            /\ returned(IF engine = "meta"
                        THEN MetaClass_new(St, c, <<>>, kwargs, Len(hashorder[c]) + 1)
                        ELSE model_MetaClass_new(St, c, kwargs))

\* clone(instance) of an instance in the pool
Clone ==
    \E instance \in Created :
        LET returned(r) == Did("clone", <<instance>>, r.st, <<"inst", r.ret>>, r.exc)
        IN  /\ instance \in Range(storage[instance[1]])
            /\ <<instance[1], Len(hashorder[instance[1]]) + 1>> \in AllInst
            /\ returned(IF engine = "meta"
                        THEN MetaClass_clone(St, instance, Len(hashorder[instance[1]]) + 1)
                        ELSE model_clone(St, instance))

NextClone == NewToClone \/ Clone \/ Return

\* instances created, related by their referential values, and cloned
SpecClone == InitClone /\ [][NextClone]_vars

\* instance x reads every attribute of its class as instance y does
SameAttributes(S, x, y) ==
    \A k \in DOMAIN S.metaclasses[x[1]].attributes :
        LET name == S.metaclasses[x[1]].attributes[k][1]
        IN  IF engine = "meta" THEN getattr(S, x, name) = getattr(S, y, name)
            ELSE model_getattr(S, x, name) = model_getattr(S, y, name)

\* the instance cloned in this step has a neighbor across some Link
ClonedRelated ==
    IF engine = "meta"
    THEN \E a \in DOMAIN links : \E side \in Sides :
             Link_navigate(links[a][side], last'.args[1]) # {}
    ELSE \E name \in metaclasses[last'.args[1][1]].referential_attributes :
             model_getattr(St, last'.args[1], name) # None

\* the call of clone in this step returned a new instance of the pool that
\* reads every attribute as the instance cloned does
Cloned ==
    /\ last'.exc = "none"
    /\ last'.ret[2] # last'.args[1]
    /\ last'.ret[2] \in Range(storage'[last'.args[1][1]]) \ Range(storage[last'.args[1][1]])
    /\ SameAttributes(St', last'.ret[2], last'.args[1])

\* C27: clone(x) returns a new instance, distinct from x and appended to the
\* pool, whose every attribute reads equal to the corresponding attribute of
\* x, for every instance x, whether or not x is related to other instances.
C27_Clone == [][(last = NoCall /\ last'.op = "clone") => Cloned]_vars

\* the same for the instances that have no neighbor across any Link
C27_CloneUnrelated ==
    [][(last = NoCall /\ last'.op = "clone" /\ ~ClonedRelated) => Cloned]_vars

\* ------------------------------------------------------------------ C28
\* the call of relate or unrelate made in this step has None for one of its
\* instance arguments
NoneArgument ==
    /\ last = NoCall
    /\ last'.op \in {"relate", "unrelate"}
    /\ NoInst \in {last'.args[1], last'.args[2]}

\* C28: relate and unrelate return false, raise nothing and change no Link,
\* attribute or cache when either instance argument is absent (None),
\* whatever the relation id and phrase, including a relation id for which no
\* association exists.
C28_NoneArguments ==
    [][NoneArgument =>
          /\ last'.ret = PyBool(FALSE)
          /\ last'.exc = "none"
          /\ UNCHANGED <<metaclasses, associations, links, storage, idict, cache, id_generator>>]_vars

\* unrelate of None from an instance that has a neighbor, across R3, which
\* no association has, returned False
C28_Witness ==
    /\ CallIs("unrelate") /\ last.ret = PyBool(FALSE) /\ last.exc = "none"
    /\ from_arg = NoInst /\ to_arg \in Created
    /\ rel_arg = <<"int", 3>>
    /\ IF engine = "meta"
       THEN \E a \in DOMAIN links : \E side \in Sides : Link_navigate(links[a][side], to_arg) # {}
       ELSE \E x \in Created : \E name \in metaclasses[x[1]].referential_attributes :
                model_getattr(St, x, name) # None

\* relate of an instance to None across R1 returned False
C28_WitnessRelate ==
    /\ CallIs("relate") /\ last.ret = PyBool(FALSE) /\ last.exc = "none"
    /\ from_arg \in Created /\ to_arg = NoInst
    /\ rel_arg = <<"int", 1>>

\* ------------------------------------------------------------------ C29
\* the attribute as the engine in use reads it
Read(S, x, name) == IF engine = "meta" THEN getattr(S, x, name) ELSE model_getattr(S, x, name)

\* define_unique_identifier('Per', 1, 'Id'): the identifiers of a class, each
\* the tuple of its attributes
indices(c) == IF c = PER THEN {<<aId>>} ELSE {}

\* the uniqueness pass: the number of groups of more than one instance that
\* hold the same values of an identifier, the null values left out
check_uniqueness_constraint(S) ==
    LET tuple(x, names) == [i \in DOMAIN names |-> Read(S, x, names[i])]
        null(c, names, v) == \E i \in DOMAIN names : NullValue(TypeOf(S, c, names[i]), v[i])
        groups(c, names) ==
            {v \in {tuple(x, names) : x \in Range(S.storage[c])} :
                /\ ~null(c, names, v)
                /\ Cardinality({x \in Range(S.storage[c]) : tuple(x, names) = v}) > 1}
    IN  Cardinality(UNION {UNION {{<<c, names, v>> : v \in groups(c, names)} : names \in indices(c)} :
                           c \in DOMAIN S.metaclasses})

\* the association pass over the Links of xtuml.meta: the pairs (a, b) on a
\* source Link for which b does not carry the reverse edge
missing_reverse_edges(S) ==
    UNION {{<<n, a, b>> : a \in AllInst, b \in AllInst} \cap
           {e \in {n} \X AllInst \X AllInst :
               /\ e[3] \in Link_navigate(S.links[n].source, e[2])
               /\ e[2] \notin Link_navigate(S.links[n].target, e[3])} :
           n \in DOMAIN S.associations}

\* the association pass over the keys of xtuml.model: the instances whose
\* referential values are not null and resolve to no instance of the target
\* class, the target Link not being conditional
orphan_referentials(S) ==
    LET resolves(x, link) ==
            \E y \in Range(S.storage[link.to_metaclass]) :
                \A i \in DOMAIN link.key_map :
                    ~PyNe(model_getattr(S, x, link.key_map[i][1]),
                          model_getattr(S, y, link.key_map[i][2]))
        orphan(x, link) ==
            /\ \E i \in DOMAIN link.key_map : ~model_is_null(S, x, link.key_map[i][1])
            /\ ~resolves(x, link)
    IN  UNION {{<<n, x>> : x \in {y \in Range(S.storage[S.associations[n].link.from_metaclass]) :
                                    /\ ~S.associations[n].link.conditional
                                    /\ orphan(y, S.associations[n].link)}} :
               n \in DOMAIN S.associations}

\* the association pass: the number of violations
check_association_integrity(S) ==
    IF engine = "meta" THEN Cardinality(missing_reverse_edges(S))
    ELSE Cardinality(orphan_referentials(S))

\* MetaModel.is_consistent of xtuml.meta, the two passes having counted
is_consistent(integrity, uniqueness) ==
    IF integrity # 0 THEN PyBool(FALSE) ELSE PyBool(uniqueness = 0)

\* MetaModel.is_consistent of xtuml.model: 'if not check_association_integrity'
\* returns False, else the count of the uniqueness pass is returned
model_is_consistent(integrity, uniqueness) ==
    IF integrity = 0 THEN PyBool(FALSE) ELSE PyInt(uniqueness)

\* R1 where every Dog must have an owner: Dog (owner_id) *C -> Per (Id) 1,
\* no instance, under either engine
InitCheck ==
    /\ \/ /\ engine = "meta"
          /\ Assign(Association_formalize(
                        define_association(Empty, <<"int", 1>>, upper(kDog), <<aOwner>>, TRUE, TRUE, NoPhrase,
                                           upper(kPer), <<aId>>, FALSE, FALSE, NoPhrase).st, 1))
       \/ /\ engine = "model"
          /\ Assign(model_define_association(model_Empty(kDog, kPer), <<"int", 1>>, upper(kDog), <<aOwner>>,
                                             TRUE, TRUE, NoPhrase, upper(kPer), <<aId>>, FALSE, FALSE,
                                             NoPhrase).st)
    /\ last = NoCall

\* metamodel.is_consistent()
IsConsistent ==
    \E integrity \in {check_association_integrity(St)}, uniqueness \in {check_uniqueness_constraint(St)} :
        Did("is_consistent", <<>>, St,
            IF engine = "meta" THEN is_consistent(integrity, uniqueness)
            ELSE model_is_consistent(integrity, uniqueness),
            "none")

\* relate(from_instance, to_instance, 1)
RelateChecked ==
    \E from_instance \in Created, to_instance \in Created :
        Called("relate", <<from_instance, to_instance, <<"int", 1>>, NoPhrase>>,
               IF engine = "meta" THEN relate(St, from_instance, to_instance, <<"int", 1>>, NoPhrase)
               ELSE model_relate(St, from_instance, to_instance, <<"int", 1>>, NoPhrase))

NextCheck == NewToClone \/ RelateChecked \/ IsConsistent \/ Return

\* a population created, related and checked
SpecCheck == InitCheck /\ [][NextCheck]_vars

\* C29: is_consistent() returns true if and only if the association-integrity
\* check and the uniqueness check both report a violation count of zero.
C29_IsConsistent ==
    [][(last = NoCall /\ last'.op = "is_consistent") =>
          /\ last'.exc = "none"
          /\ Truthy(last'.ret) <=> (check_association_integrity(St) = 0 /\ check_uniqueness_constraint(St) = 0)]_vars

\* ------------------------------------------------------------------ C30
\* C30: a relate call that raises RelateException leaves every Link neighbor
\* set exactly as it was before the call (no pair is left connected in one
\* direction only), so that the caller can retry or relate other instances
\* afterwards.
C30_RelateErrorRecoverable ==
    [][(last = NoCall /\ last'.op = "relate" /\ last'.exc = "RelateException") => links' = links]_vars

\* the same for the calls that the source Link rejects
C30_RejectedBySourceLink ==
    [][(/\ last = NoCall /\ last'.op = "relate" /\ last'.exc = "RelateException"
        /\ \A a \in DOMAIN links : links'[a].source = links[a].source) => links' = links]_vars

\* ------------------------------------------------------------------ C31
\* C31: sort_reflexive terminates on every population that relate and
\* unrelate calls reach (the calls that raised RelateException included) on
\* the reflexive 1C-1C association, in particular when following the opposing
\* phrase from a head leads into a cycle that does not contain that head: no
\* call of sort_reflexive walks for ever.
C31_SortReflexiveTerminates ==
    [][(last = NoCall /\ last'.op = "sort_reflexive") => last'.exc # "endless"]_vars

\* ------------------------------------------------------------------ C32
\* the generator that Query.execute() returns, not started: phase is where
\* its frame is paused ("new" before the first next(), "replay" at the yield
\* of 'for inst in self.result', "evaluate" at the yield of 'while
\* self.evaluation', "done" once it returned or raised); at and size are the
\* deque iterator of the first loop (elements given, length of the deque when
\* the iterator was made); yielded is what the consumer received
Generator(c, items) ==
    [c |-> c, items |-> items, phase |-> "new", at |-> 0, size |-> 0, yielded |-> <<>>, exc |-> "none"]

\* the number of generators a program holds at a time
MaxGenerators == 2

\* next(g), g a generator of Query.execute: [st, g].  The iterator of a deque
\* raises RuntimeError when the deque was appended to since the iterator was
\* made; next() of an evaluation that ended raises StopIteration, which ends
\* execute
generator_next(S, g) ==
    LET q == S.cache[g.c][Range(g.items)]
        evaluated(r) ==
            [st |-> [S EXCEPT !.cache[g.c] = DictSet(@, Range(g.items), r.q)],
             g |-> IF r.exc # "none" THEN [g EXCEPT !.phase = "done", !.exc = r.exc]
                   ELSE IF r.inst = NoInst THEN [g EXCEPT !.phase = "done"]
                   ELSE [g EXCEPT !.phase = "evaluate", !.yielded = Append(@, r.inst)]]
        while(evaluation) ==
            IF evaluation # "paused" THEN [st |-> S, g |-> [g EXCEPT !.phase = "done"]]
            ELSE evaluated(IF engine = "meta" THEN Query_evaluate(S, S.storage[g.c], q)
                           ELSE model_mk_generator(S, S.storage[g.c], q))
        replay(at, size) ==
            IF Len(q.result) # size
            THEN [st |-> S, g |-> [g EXCEPT !.phase = "done", !.exc = "RuntimeError"]]
            ELSE IF at = size THEN while(q.evaluation)
            ELSE [st |-> S, g |-> [g EXCEPT !.phase = "replay", !.at = at + 1, !.size = size,
                                            !.yielded = Append(@, q.result[at + 1])]]
    IN  CASE g.phase = "new" -> replay(0, Len(q.result))
          [] g.phase = "replay" -> replay(g.at, g.size)
          [] g.phase = "evaluate" -> while(q.evaluation)
          [] OTHER -> [st |-> S, g |-> g]

\* the Ids that the instances of Per are created with
QueryIds == [1..MaxChain -> 1..2]

\* MaxChain instances of Per from the k-th on, the n-th with the Id ids[n]
RECURSIVE PopulateIds(_, _, _)
PopulateIds(S, ids, k) ==
    IF k > MaxChain THEN S
    ELSE PopulateIds(IF engine = "meta"
                     THEN MetaClass_new(S, PER, <<>>, <<<<aId, PyInt(ids[k])>>>>, k).st
                     ELSE model_MetaClass_new(S, PER, <<<<aId, PyInt(ids[k])>>>>).st,
                     ids, k + 1)

\* Dog and Per without association, MaxChain instances of Per, under either
\* engine
InitQueries ==
    /\ engine \in {"meta", "model"}
    /\ \E ids \in QueryIds : Assign(PopulateIds(Empty, ids, 1))
    /\ last = NoCall

\* the dicts that Per is queried with
QueryMaps == {<<<<aId, PyInt(1)>>>>, <<<<aId, PyInt(2)>>>>}

\* g = Per.query(dictonary_of_values): the Query is cached, the generator of
\* its execute() is made and not started
MetaClassQuery ==
    \E items \in QueryMaps :
        /\ last = NoCall
        /\ Len(generators) < MaxGenerators
        /\ Changes([St EXCEPT !.cache[PER] = query_cache(St, PER, items)])
        /\ generators' = Append(generators, Generator(PER, items))
        /\ last' = [op |-> "query", args |-> <<PER, items>>, ret |-> None, exc |-> "none"]
        /\ twin' = twin

\* next(g, None) of one of the generators held
GeneratorNext ==
    \E i \in DOMAIN generators :
        LET resumed(r) ==
                /\ Changes(r.st)
                /\ generators' = [generators EXCEPT ![i] = r.g]
                /\ last' = [op |-> "next", args |-> <<i>>,
                            ret |-> <<"inst", IF Len(r.g.yielded) > Len(generators[i].yielded)
                                              THEN r.g.yielded[Len(r.g.yielded)] ELSE NoInst>>,
                            exc |-> r.g.exc]
        IN  /\ last = NoCall
            /\ generators[i].phase # "done"
            /\ resumed(generator_next(St, generators[i]))
            /\ twin' = twin

NextQueries == MetaClassQuery \/ GeneratorNext \/ Return

\* executions of cached Queries, started and resumed in any order, the pool
\* left alone
SpecQueries == InitQueries /\ [][NextQueries]_vars

\* C32: when two executions of the same cached Query are interleaved (a
\* second execute() is started and consumed, partly or fully, while the first
\* is paused part-way, with no pool mutation), each of the two executions
\* still yields every matching instance exactly once, in pool order: every
\* execution that came to its end raised nothing and yielded the matching
\* instances of the pool in pool order.
C32_InterleavedExecutions ==
    \A i \in DOMAIN generators :
        generators[i].phase = "done" =>
            /\ generators[i].exc = "none"
            /\ generators[i].yielded = Matching(St, generators[i].c, generators[i].items)

\* the same for the executions that ran alone: no other execution of the
\* same Query exists
C32_ExecutionAlone ==
    \A i \in DOMAIN generators :
        (/\ generators[i].phase = "done"
         /\ \A j \in DOMAIN generators : j # i => generators[j].items # generators[i].items) =>
            /\ generators[i].exc = "none"
            /\ generators[i].yielded = Matching(St, generators[i].c, generators[i].items)

\* ------------------------------------------------------------------ C33
\* instance x is in a neighbor set of a Link of state S, or a navigation
\* from an instance that is in a pool yields it
StillLinked(S, x) ==
    \/ \E a \in DOMAIN S.links : \E side \in Sides : \E y \in AllInst :
           x \in Link_navigate(S.links[a][side], y)
    \/ \E c \in DOMAIN S.storage : \E y \in Range(S.storage[c]) :
           \E kind \in {kDog, kPer}, across \in Across :
               x \in Range(NavChain_nav(S, y, kind, across[1], across[2]).seq)

\* C33: after delete(x), x appears in no Link neighbor set and no navigation
\* from any remaining instance across any Link yields x.
C33_DeleteUnlinks ==
    [][(last = NoCall /\ last'.op = "delete" /\ last'.exc = "none") =>
          ~StillLinked(St', last'.args[1])]_vars

\* the same for the instances that have no neighbor when they are deleted
C33_DeleteUnrelated ==
    [][(last = NoCall /\ last'.op = "delete" /\ last'.exc = "none"
        /\ ~StillLinked(St, last'.args[1])) =>
          ~StillLinked(St', last'.args[1])]_vars

\* ------------------------------------------------------------------ C34
\* the QuerySets that are proper subsets of the instances of Per, in any order
SortSubsets == {set \in SUBSET (Created \cap {<<PER, n>> : n \in 1..MaxChain}) : set # {} /\ Cardinality(set) < MaxChain}

SortSome ==
    \E set \in SortSubsets :
        \E set_of_instances \in Orders(set), across \in SortAcross :
            LET returned(r) == Did("sort_reflexive", <<set_of_instances, across[1], across[2]>>, St, <<"seq", r.seq>>, r.exc)
            IN  /\ engine = "meta"
                /\ returned(sort_reflexive(St, set_of_instances, across[1], across[2]))

model_SortSome ==
    \E set \in SortSubsets :
        \E set_of_instances \in Orders(set), across \in SortAcross :
            LET returned(r) == Did("sort_reflexive", <<set_of_instances, across[1], across[2]>>, r.st, <<"seq", r.seq>>, r.exc)
            IN  /\ engine = "model"
                /\ returned(model_sort_reflexive(St, set_of_instances, across[1], across[2]))

NextSortSome ==
    Relate \/ Unrelate \/ SortSome \/ model_Relate \/ model_Unrelate \/ model_SortSome \/ Return

\* parts of the chains and cycles across R2 sorted, under either engine
SpecSortSome == InitSort /\ [][NextSortSome]_vars

\* sequence seq holds the elements of sequence s, each once
Permutation(seq, s) ==
    /\ Range(seq) = Range(s)
    /\ Len(seq) = Cardinality(Range(s))

\* C34: sort_reflexive(S, R, phrase) returns exactly the elements of S, each
\* once: it includes no instance outside S and omits no element of S.
C34_SortReturnsTheSet ==
    [][(last = NoCall /\ last'.op = "sort_reflexive") =>
          /\ last'.exc = "none"
          /\ Permutation(last'.ret[2], last'.args[1])]_vars

\* the same for the calls that return: what is returned holds no instance
\* twice
C34_SortReturnsNoDuplicate ==
    [][(last = NoCall /\ last'.op = "sort_reflexive" /\ last'.exc = "none") =>
          Len(last'.ret[2]) = Cardinality(Range(last'.ret[2]))]_vars

\* the calls that return without a walk that repeats hold every element of
\* the set sorted
C34_SortOmitsNothing ==
    [][(last = NoCall /\ last'.op = "sort_reflexive" /\ last'.exc = "none") =>
          Range(last'.args[1]) \subseteq Range(last'.ret[2])]_vars

\* the calls that return hold no instance outside the set sorted
C34_SortAddsNothing ==
    [][(last = NoCall /\ last'.op = "sort_reflexive" /\ last'.exc = "none") =>
          Range(last'.ret[2]) \subseteq Range(last'.args[1])]_vars

\* ------------------------------------------------------------------ C35
\* WhereEqual.__call__(selected), the predicate of where_eq(**kwargs), the
\* dict being the sequence of its items: TRUE, FALSE or AttributeError
RECURSIVE WhereEqual(_, _, _)
WhereEqual(S, selected, kwargs) ==
    LET test(got, value) ==
            IF got = AttributeError THEN AttributeError
            ELSE IF PyNe(got, value) THEN FALSE
            ELSE WhereEqual(S, selected, Tail(kwargs))
    IN  IF kwargs = <<>> THEN TRUE
        ELSE test(getattr(S, selected, Head(kwargs)[1]), Head(kwargs)[2])

\* filter(where_eq(**kwargs).__call__, storage) consumed: the instances of
\* the pool of class c for which the predicate is true, in pool order
filter_where_eq(S, c, kwargs) ==
    SelectSeqBy(S.storage[c], {x \in Range(S.storage[c]) : WhereEqual(S, x, kwargs) = TRUE})

\* C35: select_many(K, where_eq(**kw)) and select_one(K, where_eq(**kw))
\* return the same instances as filtering the pool with the where_eq
\* predicate itself, attribute equality for every keyword, also when an
\* expected value is null ('' or the UNIQUE_ID 0).
C35_WhereEqualAsPredicate ==
    /\ (CallIs("select_many") /\ last.exc = "none") =>
           last.ret[2] = filter_where_eq(St, last.args[1], last.args[2])
    /\ (CallIs("select_one") /\ last.exc = "none") =>
           last.ret[2] = (IF filter_where_eq(St, last.args[1], last.args[2]) = <<>> THEN NoInst
                          ELSE filter_where_eq(St, last.args[1], last.args[2])[1])

\* the same for the selects in which no instance of the pool holds a null
\* value in an attribute that the where-clause names
C35_WhereEqualWithoutNulls ==
    (/\ last.op \in {"select_many", "select_one"} /\ last.exc = "none"
     /\ \A x \in Range(storage[last.args[1]]) : \A i \in DOMAIN last.args[2] :
            ~_is_null(St, x, last.args[2][i][1]))
    => C35_WhereEqualAsPredicate

\* ------------------------------------------------------------------ C36
\* a type name that default_value does not know
tDATE == <<"d","a","t","e">>

\* the attribute lists that the classes are defined with, with and without an
\* attribute of the unknown type, first, last or in the middle
UnknownAttributes ==
    {<<<<aName, tSTRING>>>>, <<<<aName, tSTRING>>, <<aTag, tDATE>>>>, <<<<aTag, tDATE>>, <<aName, tSTRING>>>>,
     <<<<aId, tUNIQUE_ID>>, <<aTag, tDATE>>, <<aAge, tINTEGER>>>>}

\* metamodel.define_class(kind, attributes), the type names not being looked at
DefineUnknown ==
    \E kind \in {kDog, kPer}, attributes \in UnknownAttributes :
        LET returned(r) == Did("define_class", <<kind, attributes>>, r.st, None, r.exc)
        IN  returned(IF engine = "meta" THEN define_class(St, kind, attributes)
                     ELSE model_define_class(St, kind, attributes))

NextUnknown == DefineUnknown \/ NewOfClass \/ Return

\* classes with attributes of an unknown type defined and instantiated,
\* under either engine
SpecUnknown == InitClasses /\ [][NextUnknown]_vars

\* class c of state S has a non-referential attribute whose type
\* default_value does not know
HasUnknownType(S, c) ==
    \E i \in DOMAIN S.metaclasses[c].attributes :
        /\ S.metaclasses[c].attributes[i][1] \notin S.metaclasses[c].referential_attributes
        /\ upper(S.metaclasses[c].attributes[i][2]) \notin {cBOOLEAN, cINTEGER, cREAL, cSTRING, cUNIQUE_ID}

\* the error of default_value: MetaException (xtuml.meta), ModelException
\* (xtuml.model)
UnknownTypeError == IF engine = "meta" THEN "MetaException" ELSE "ModelException"

\* C36: new on a class with a non-referential attribute of unknown type
\* fails with the unknown-type error and leaves the pool unchanged: no
\* partially initialised instance remains in the pool or is returned by a
\* later select.
C36_NewUnknownType ==
    [][(last = NoCall /\ last'.op = "new" /\ HasUnknownType(St, last'.args[1])) =>
          /\ last'.exc = UnknownTypeError
          /\ storage' = storage
          /\ select_many_all(St', last'.args[1]) = select_many_all(St, last'.args[1])]_vars

\* the call fails with the unknown-type error, under either engine
C36_NewUnknownTypeRaises ==
    [][(last = NoCall /\ last'.op = "new" /\ HasUnknownType(St, last'.args[1])) =>
          last'.exc = UnknownTypeError /\ last'.ret[2] = NoInst]_vars

\* under xtuml.model the pool is left unchanged
C36_NewUnknownTypeKeyCopy ==
    [][(last = NoCall /\ last'.op = "new" /\ HasUnknownType(St, last'.args[1]) /\ engine = "model") =>
          storage' = storage]_vars

\* ------------------------------------------------------------------ C37
\* neither instance is in a neighbor set of the other, in any Link of state S
Unconnected(S, a, b) ==
    \A r \in DOMAIN S.links : \A side \in Sides :
        /\ b \notin Link_navigate(S.links[r][side], a)
        /\ a \notin Link_navigate(S.links[r][side], b)

\* relate(b, a, R, q) in state S gives what relate(a, b, R, p) gave: the
\* neighbor sets nb, the result ret and the exception exc
SameAsOpposite(S, a, b, rel_id, p, nb, ret, exc) ==
    LET same(r) == r.st.links = nb /\ PyBool(r.ret) = ret /\ r.exc = exc
    IN  same(relate(S, b, a, rel_id, OtherPhrase(p)))

\* unrelate(b, a, R, q) in state S returns True and leaves the neighbor sets nb
UndoneByOpposite(S, a, b, rel_id, p, nb) ==
    LET undone(u) == u.exc = "none" /\ u.ret /\ u.st.links = nb
    IN  undone(unrelate(S, b, a, rel_id, OtherPhrase(p)))

\* C37: for the reflexive association R2 with the phrases p and q,
\* relate(a, b, R, p) and relate(b, a, R, q) produce the same Link neighbor
\* sets (and the same result or exception), and unrelate(b, a, R, q) undoes a
\* relate(a, b, R, p) that connected a and b: it returns True and leaves the
\* neighbor sets as they were before the relate.
C37_ReflexiveSymmetry ==
    [][(last = NoCall /\ last'.op = "relate" /\ last'.args[4] \in {pPrev, pNext}) =>
          /\ SameAsOpposite(St, last'.args[1], last'.args[2], last'.args[3], last'.args[4],
                            links', last'.ret, last'.exc)
          /\ (last'.ret = PyBool(TRUE) /\ Unconnected(St, last'.args[1], last'.args[2])) =>
                 UndoneByOpposite(St', last'.args[1], last'.args[2], last'.args[3],
                                  last'.args[4], links)]_vars

\* relate(a, b, 2, phrase) returned True for two instances of Per, each of
\* which is now the only neighbor of the other, in one Link each way
C37_Witness ==
    /\ CallIs("relate") /\ last.ret = PyBool(TRUE) /\ last.exc = "none"
    /\ last.args[3] = <<"int", 2>> /\ last.args[4] \in {pPrev, pNext}
    /\ last.args[1] # last.args[2]
    /\ \E side \in Sides : links[1][side][last.args[1]] = {last.args[2]}
    /\ \E side \in Sides : links[1][side][last.args[2]] = {last.args[1]}

\* relate(a, b, 2, phrase) raised RelateException
C37_WitnessRejected ==
    /\ CallIs("relate") /\ last.exc = "RelateException"
    /\ last.args[3] = <<"int", 2>> /\ last.args[4] \in {pPrev, pNext}

\* ------------------------------------------------------------------ C38
\* R1 with two key pairs: Dog (owner_id, Name) -> Per (Id, prev_id)
model_DefineTwoKeys(S) ==
    model_define_association(S, <<"int", 1>>, upper(kDog), <<aOwner, aName>>, TRUE, TRUE,
                             NoPhrase, upper(kPer), <<aId, aPrev>>, FALSE, TRUE, NoPhrase).st

\* the named arguments the Dogs and the Pers are created with: a Dog with
\* its Name null or not, a Per with its prev_id null or not
DogKeyArgs == {<<>>, <<<<aName, PyStr("Rex")>>>>}
PerKeyArgs(k) == {<<<<aId, PyInt(k)>>, <<aPrev, PyInt(prev)>>>> : prev \in {0, 7}}

\* the association with two key pairs and MaxInst instances of each class,
\* under xtuml.model
InitKeys ==
    \E dog_args \in [1..MaxInst -> DogKeyArgs] :
        \E per_args \in {f \in [1..MaxInst -> UNION {PerKeyArgs(k) : k \in 1..MaxInst}] :
                             \A k \in 1..MaxInst : f[k] \in PerKeyArgs(k)} :
            /\ Assign(model_Populate(model_Populate(
                          model_DefineTwoKeys(model_Empty(upper(kDog), upper(kPer))),
                          DOG, dog_args, 1), PER, per_args, 1))
            /\ engine = "model"
            /\ last = NoCall

NextKeys == model_RelateR1 \/ model_UnrelateR1 \/ Return

\* relate and unrelate across an association with two key pairs
SpecKeys == InitKeys /\ [][NextKeys]_vars

\* C38: under xtuml.model a relate call that raises (an identifying
\* attribute of the target is null, or the source instance is already
\* related to another target) leaves every attribute of both instances
\* unchanged, also when the association has several key pairs and an earlier
\* pair was compared or copied before a later pair fails.
C38_RaisingRelateKeepsAttributes ==
    [][(last = NoCall /\ last'.op = "relate" /\ last'.exc # "none") =>
          /\ idict'[last'.args[1]] = idict[last'.args[1]]
          /\ idict'[last'.args[2]] = idict[last'.args[2]]]_vars

\* the same for the calls that fail on the first key pair
C38_FirstPairFails ==
    [][(/\ last = NoCall /\ last'.op = "relate" /\ last'.exc # "none"
        /\ \/ model_is_null(St, last'.args[2], aId)
           \/ /\ ~model_is_null(St, last'.args[1], aOwner)
              /\ PyNe(model_getattr(St, last'.args[1], aOwner), model_getattr(St, last'.args[2], aId))) =>
          idict' = idict]_vars

\* ------------------------------------------------------------------ C39
\* R3: a second association between Dog (owner_id) and Per (Id), many Dogs
\* to a Per
DefineR3(S) ==
    define_association(S, <<"int", 3>>, upper(kDog), <<aOwner>>, TRUE, TRUE,
                       NoPhrase, upper(kPer), <<aId>>, FALSE, TRUE, NoPhrase).st

\* the one-to-one R1 and R3, both formalized, and MaxInst instances of each
\* class, unrelated
InitFrame ==
    /\ Assign(Populate(Populate(Association_formalize(Association_formalize(
                                    DefineR3(DefineR1(Empty, FALSE)), 1), 2),
                                DOG, DogArgs, AllocationOrder, 1),
                       PER, PerArgs, AllocationOrder, 1))
    /\ engine = "meta"
    /\ last = NoCall

\* the (rel_id, phrase) pairs of the calls: R1 and R3, as int and as string,
\* and R2, which the schema does not define
FrameAcross == {<<(<<"int", 1>>), NoPhrase>>, <<(<<"int", 3>>), NoPhrase>>,
                <<(<<"str", <<"R", "3">>>>), NoPhrase>>, <<(<<"int", 2>>), NoPhrase>>}

RelateFrame ==
    \E from_instance \in Created, to_instance \in Created, across \in FrameAcross :
        /\ from_instance[1] # to_instance[1]
        /\ Called("relate", <<from_instance, to_instance, across[1], across[2]>>,
                  relate(St, from_instance, to_instance, across[1], across[2]))

UnrelateFrame ==
    \E from_instance \in Created, to_instance \in Created, across \in FrameAcross :
        /\ from_instance[1] # to_instance[1]
        /\ Called("unrelate", <<from_instance, to_instance, across[1], across[2]>>,
                  unrelate(St, from_instance, to_instance, across[1], across[2]))

NextFrame == RelateFrame \/ UnrelateFrame \/ Return

\* relate and unrelate across two associations between the same two classes
SpecFrame == InitFrame /\ [][NextFrame]_vars

C39_WitnessFailed ==
    /\ last.op \in {"relate", "unrelate"} /\ last.exc \in {"RelateException", "UnrelateException"}
    /\ norm_rel_id(last.args[3]) = associations[1].rel_id
    /\ \E side \in Sides : \E x \in AllInst : Link_navigate(links[2][side], x) # {}

\* ------------------------------------------------------------------ C40
\* the Link objects that the program may allocate
MaxLinks == 2

\* the identities of the Link objects that the dicts MetaClass.links hold
LinkIds(S) ==
    UNION {{S.metaclasses[c].links[i][2].id : i \in DOMAIN S.metaclasses[c].links} :
              c \in DOMAIN S.metaclasses}

\* the identity of a Link object allocated in state S: it differs from the
\* identity of every Link that a dict holds
NewLinkId(S) == IF LinkIds(S) = {} THEN 1 ELSE 1 + CHOOSE n \in LinkIds(S) : \A m \in LinkIds(S) : m <= n

\* MetaClass.add_link of xtuml.meta on metaclass c, called by the program:
\* [st, link]; the Link is the record of Link.__init__ with the identity id
\* of the object, and the dict holds the object itself
MetaClass_add_link(S, c, metaclass, rel_id, phrase, conditional, many, id) ==
    LET object(made) ==
            [id |-> id, from_metaclass |-> made.from_metaclass, rel_id |-> made.rel_id,
             to_metaclass |-> made.to_metaclass, key_map |-> made.key_map,
             phrase |-> made.phrase, conditional |-> made.conditional, many |-> made.many]
        add(link) ==
            [st |-> [S EXCEPT !.metaclasses[c].links =
                         links_put(@, link_key(S, metaclass, rel_id, phrase), link)],
             link |-> link]
    IN  add(object(Link(c, rel_id, metaclass, phrase, conditional, many)))

\* MetaClass.add_link of xtuml.model on metaclass c, reverse=False: [st, link]
model_MetaClass_add_link(S, c, metaclass, rel_id, phrase, conditional, many, id) ==
    LET add(link) ==
            [st |-> [S EXCEPT !.metaclasses[c] =
                         model_add_link(@, link, S.metaclasses[metaclass].kind)],
             link |-> link]
    IN  add(model_Link(id, c, rel_id, metaclass, <<>>, phrase, conditional, many))

\* the relation ids and phrases that add_link and find_link are called with
LinkRelIds == {<<"int", 1>>, <<"str", <<"R", "1">>>>}
LinkPhrases == {NoPhrase, pNext}

\* c.add_link(metaclass, rel_id, phrase, conditional=True, many=False)
AddLink ==
    \E c \in {DOG, PER}, metaclass \in {DOG, PER}, rel_id \in LinkRelIds, phrase \in LinkPhrases :
        LET returned(r) == Did("add_link", <<c, metaclass, rel_id, phrase>>, r.st, <<"link", r.link>>, "none")
        IN  /\ NewLinkId(St) <= MaxLinks
            /\ returned(IF engine = "meta"
                        THEN MetaClass_add_link(St, c, metaclass, rel_id, phrase, TRUE, FALSE, NewLinkId(St))
                        ELSE model_MetaClass_add_link(St, c, metaclass, rel_id, phrase, TRUE, FALSE, NewLinkId(St)))

\* MetaClass.find_link under the engine of the program
any_find_link(S, c, kind, rel_id, phrase) ==
    IF engine = "meta" THEN find_link(S, c, kind, rel_id, phrase)
    ELSE model_find_link(S, c, kind, rel_id, phrase)

\* c.find_link(kind, rel_id, phrase), kind the kind of a class
FindLink ==
    \E c \in {DOG, PER}, metaclass \in {DOG, PER}, rel_id \in LinkRelIds, phrase \in LinkPhrases :
        LET returned(link) == Did("find_link", <<c, metaclass, rel_id, phrase>>, St, <<"link", link>>, "none")
        IN  returned(any_find_link(St, c, metaclasses[metaclass].kind, rel_id, phrase))

NextLinks == AddLink \/ FindLink \/ Return

\* links added to the classes of a metamodel without associations, and
\* looked up, under either engine
SpecLinks == InitAssoc /\ [][NextLinks]_vars

\* the relation id of a key of MetaClass.links, normalised
KeyRelId(key) == IF key[2][1] \in {"int", "str"} THEN norm_rel_id(key[2]) ELSE key[2]

\* the items of the dict MetaClass.links of class c that are filed for the
\* target class, the relation id and the phrase
FiledFor(S, c, metaclass, rel_id, phrase) ==
    {i \in DOMAIN S.metaclasses[c].links :
        LET key == S.metaclasses[c].links[i][1]
        IN  /\ upper(key[1]) = upper(S.metaclasses[metaclass].kind)
            /\ KeyRelId(key) = norm_rel_id(rel_id)
            /\ key[3] = phrase}

\* C40: for any target class, phrase and relation id given as the integer n
\* or as the string 'Rn', find_link(kind, rel_id, phrase) called after
\* add_link(target, rel_id, phrase, ...) with the same arguments returns the
\* Link just added, and an add_link with the (target kind, relation id,
\* phrase) of a Link added before replaces that Link.
C40_AddLinkThenFindLink ==
    [][(last = NoCall /\ last'.op = "add_link") =>
          /\ any_find_link(St', last'.args[1], metaclasses[last'.args[2]].kind,
                           last'.args[3], last'.args[4]) = last'.ret[2]
          /\ Cardinality(FiledFor(St', last'.args[1], last'.args[2], last'.args[3], last'.args[4])) = 1]_vars

\* the same for the calls that give the relation id as a string, and for
\* every call under xtuml.model
C40_AddLinkByString ==
    [][(/\ last = NoCall /\ last'.op = "add_link"
        /\ last'.args[3][1] = "str" \/ engine = "model"
        /\ \A i \in FiledFor(St, last'.args[1], last'.args[2], last'.args[3], last'.args[4]) :
               engine = "model" \/ metaclasses[last'.args[1]].links[i][1][2][1] = "str") =>
          /\ any_find_link(St', last'.args[1], metaclasses[last'.args[2]].kind,
                           last'.args[3], last'.args[4]) = last'.ret[2]
          /\ Cardinality(FiledFor(St', last'.args[1], last'.args[2], last'.args[3], last'.args[4])) = 1]_vars

====
